---- MODULE Spec2Model ----
(***************************************************************************)
(* The array API wrapper class Array of numpy/_array_api/_array_object.py  *)
(* as a state machine.  The state is the receiver object `arr` (an Array   *)
(* holding an engine ndarray), and the frame of the call made on it: the   *)
(* name of the operation, its argument, what it returned or raised, and    *)
(* the engine calls it issued; Done drops the frame before the next call.  *)
(* Python values are records tagged by their type in field t; an exception *)
(* leaving a call is the record Raise(exc, msg).                           *)
(* A method is an operator giving the SET of its outcomes, each outcome    *)
(* [res, calls, self]: the value returned or exception raised, the engine  *)
(* calls issued in order, and the receiver object after the call.          *)
(* Where the identity of objects and the sharing of buffers matter, the    *)
(* objects live in `heap`: the cells of the engine's buffers and the Array *)
(* objects over them, `this` being the receiver of the call in progress.   *)
(***************************************************************************)
EXTENDS Integers, Sequences, FiniteSets, TLC

VARIABLES arr, op, arg, result, engine, heap, this

vars == <<arr, op, arg, result, engine, heap, this>>

(***************************************************************************)
(* Bounds of the model.                                                    *)
(***************************************************************************)
\* Largest axis size of an array shape handed to _validate_index.
MaxAxis == 3
\* Slice starts and stops range over -MaxIdx .. MaxIdx (and None).
MaxIdx == 5
\* Slice steps range over -MaxStep .. MaxStep (and None).
MaxStep == 2
\* The number of Array objects the heap holds at most.
MaxObjects == 2

(***************************************************************************)
(* Dtype registry (numpy/_array_api/_dtypes.py).  A dtype is its kind      *)
(* (b bool, i signed, u unsigned, f float) and its width in bits.  The     *)
(* engine also knows float16, uint32 and uint64, which only arise as the   *)
(* minimal type of a value in its value-based casting.                     *)
(***************************************************************************)
DType(kind, bits) == [t |-> "dtype", kind |-> kind, bits |-> bits]

bool == DType("b", 8)
int8 == DType("i", 8)
int16 == DType("i", 16)
int32 == DType("i", 32)
int64 == DType("i", 64)
uint8 == DType("u", 8)
uint16 == DType("u", 16)
uint32 == DType("u", 32)
uint64 == DType("u", 64)
float16 == DType("f", 16)
float32 == DType("f", 32)
float64 == DType("f", 64)

_boolean_dtypes == {bool}

\* uint32 and uint64 are left out of the arrays of the model: their values
\* do not fit the integers of the model checker.
_integer_dtypes == {int8, int16, int32, int64, uint8, uint16}

_floating_dtypes == {float32, float64}

(***************************************************************************)
(* Python values.                                                          *)
(***************************************************************************)
PyBool(v) == [t |-> "bool", v |-> v]
PyInt(v) == [t |-> "int", v |-> v]
\* Floats of the model are the integral-valued ones: PyFloat(3) is 3.0.
PyFloat(v) == [t |-> "float", v |-> v]
PyStr == [t |-> "str", v |-> 0]
PyNone == [t |-> "NoneType", v |-> 0]
PyEllipsis == [t |-> "ellipsis", v |-> 0]
\* A tuple of the values items[1], items[2], ...
PyTuple(items) == [t |-> "tuple", items |-> items]
Pair(x1, x2) == PyTuple(<<x1, x2>>)
\* slice(start, stop, step), each a Python value.
PySlice(start, stop, step) ==
    [t |-> "slice", start |-> start, stop |-> stop, step |-> step]

Raise(exc, msg) == [t |-> "raise", exc |-> exc, msg |-> msg]

\* isinstance(x, bool), isinstance(x, int), isinstance(x, float):
\* bool is a subclass of int.
isinstance_bool(x) == x.t = "bool"
isinstance_int(x) == x.t \in {"bool", "int"}
isinstance_float(x) == x.t = "float"

\* An engine array: dtype, shape, and its elements in row-major order.
NdArray(dtype, shape, data) ==
    [t |-> "ndarray", dtype |-> dtype, shape |-> shape, data |-> data]

\* An engine array scalar (np.generic).
NpGeneric(dtype, v) == [t |-> "generic", dtype |-> dtype, v |-> v]

\* An outcome of a call.
Out(res, calls, self) == [res |-> res, calls |-> calls, self |-> self]

(***************************************************************************)
(* Values of the element types.                                            *)
(***************************************************************************)
IsIntKind(d) == d.kind \in {"i", "u"}

\* v is a value of integer dtype d.  Every integer of the model fits the
\* 32 and 64 bit types but for its sign.
InRange(v, d) ==
    IF d.bits >= 32
    THEN d.kind = "i" \/ v >= 0
    ELSE IF d.kind = "i"
         THEN -(2 ^ (d.bits - 1)) <= v /\ v <= 2 ^ (d.bits - 1) - 1
         ELSE 0 <= v /\ v <= 2 ^ d.bits - 1

\* The C cast of integer v to integer dtype d: v modulo 2^bits.
CastInt(v, d) ==
    IF InRange(v, d) THEN v
    ELSE IF d.kind = "i"
         THEN ((v + 2 ^ (d.bits - 1)) % (2 ^ d.bits)) - 2 ^ (d.bits - 1)
         ELSE v % (2 ^ d.bits)

Abs(v) == IF v < 0 THEN -v ELSE v

\* The unit in the last place of a float32 of magnitude m: 2^e for the
\* least e with m < 2^(24+e).
RECURSIVE Ulp32(_, _)
Ulp32(m, u) == IF m < 16777216 * u THEN u ELSE Ulp32(m, 2 * u)

\* The integral value v as a float32: 24 significant bits, round to
\* nearest, ties to even.
RoundFloat32(v) ==
    LET m == Abs(v)
        u == Ulp32(m, 1)
        q == m \div u
        r == m % u
        up == 2 * r > u \/ (2 * r = u /\ q % 2 = 1)
        n == (IF up THEN q + 1 ELSE q) * u
    IN  IF v < 0 THEN -n ELSE n

\* np.array(scalar, dtype): the zero-dimensional engine array of a Python
\* scalar.  An integer outside the dtype's range is either cast or makes
\* the engine raise OverflowError.
np_array(scalar, dtype) ==
    IF dtype.kind = "b"
    THEN {NdArray(dtype, <<>>, <<IF scalar.v # 0 THEN 1 ELSE 0>>)}
    ELSE IF dtype.kind = "f"
    THEN {NdArray(dtype, <<>>,
                  <<IF dtype.bits = 32 THEN RoundFloat32(scalar.v) ELSE scalar.v>>)}
    ELSE IF InRange(scalar.v, dtype)
    THEN {NdArray(dtype, <<>>, <<scalar.v>>)}
    ELSE {NdArray(dtype, <<>>, <<CastInt(scalar.v, dtype)>>),
          Raise("OverflowError", "Python int too large to convert")}

(***************************************************************************)
(* Array._new and Array.__new__                                            *)
(***************************************************************************)
\* Array._new(x): the one place that makes an Array.  An array scalar is
\* first converted to a shape () array.
_new(x) ==
    [t |-> "Array",
     _array |-> IF x.t = "generic" THEN NdArray(x.dtype, <<>>, <<x.v>>) ELSE x]

\* A constructor that lets object.__new__ make the instance.
__new___allows(args) ==
    {[t |-> "Array", _array |-> IF Len(args) > 0 THEN args[1] ELSE PyNone]}

\* Array(*args, **kwargs)
__new__(args) ==
    {Raise("TypeError", "The array_api Array object should not be instantiated directly")}

\* The accessors dtype and shape.
dtype(x) == x._array.dtype
shape(x) == x._array.shape

\* _promote_scalar testing isinstance(scalar, int) before bool.
_promote_scalar_int_first(self, scalar) ==
    LET raised(msg) == {Out(Raise("TypeError", msg), <<>>, self)}
        made == {Out(IF r.t = "raise" THEN r ELSE _new(r), <<"np.array">>, self) :
                    r \in np_array(scalar, dtype(self))}
    IN  IF isinstance_int(scalar)
        THEN IF dtype(self) \in _boolean_dtypes
             THEN raised("Python int scalars cannot be promoted with bool arrays")
             ELSE made
        ELSE IF isinstance_bool(scalar)
        THEN IF dtype(self) \notin _boolean_dtypes
             THEN raised("Python bool scalars can only be promoted with bool arrays")
             ELSE made
        ELSE IF isinstance_float(scalar)
        THEN IF dtype(self) \notin _floating_dtypes
             THEN raised("Python float scalars can only be promoted with floating-point arrays.")
             ELSE made
        ELSE raised("'scalar' must be a Python scalar")

(***************************************************************************)
(* Array._promote_scalar                                                   *)
(***************************************************************************)
_promote_scalar(self, scalar) ==
    LET raised(msg) == {Out(Raise("TypeError", msg), <<>>, self)}
        made == {Out(IF r.t = "raise" THEN r ELSE _new(r), <<"np.array">>, self) :
                    r \in np_array(scalar, dtype(self))}
    IN  IF isinstance_bool(scalar)
        THEN IF dtype(self) \notin _boolean_dtypes
             THEN raised("Python bool scalars can only be promoted with bool arrays")
             ELSE made
        ELSE IF isinstance_int(scalar)
        THEN IF dtype(self) \in _boolean_dtypes
             THEN raised("Python int scalars cannot be promoted with bool arrays")
             ELSE made
        ELSE IF isinstance_float(scalar)
        THEN IF dtype(self) \notin _floating_dtypes
             THEN raised("Python float scalars can only be promoted with floating-point arrays.")
             ELSE made
        ELSE raised("'scalar' must be a Python scalar")

(***************************************************************************)
(* The inputs of the model.                                                *)
(***************************************************************************)
\* The dtypes of the arrays the model creates.
ArrayDtypes == {bool, int8, int16, uint8, float32, float64}

\* Element values of each dtype that the model's arrays hold.
ElemValues(d) ==
    IF d.kind = "b" THEN {0, 1}
    ELSE IF d.kind = "f" THEN {1, 3}
    ELSE IF d = int8 THEN {-1, 1}
    ELSE {1, 200}

Shapes == {<<>>, <<1>>, <<2>>}

RECURSIVE Size(_)
Size(s) == IF s = <<>> THEN 1 ELSE Head(s) * Size(Tail(s))

NdUniverse ==
    UNION {UNION {{NdArray(d, s, data) : data \in [1 .. Size(s) -> ElemValues(d)]} :
                     s \in Shapes} : d \in ArrayDtypes}

Scalars ==
    {PyBool(0), PyBool(1)}
      \cup {PyInt(v) : v \in {-1, 1, 200, 40000}}
      \cup {PyFloat(v) : v \in {2, 16777217}}
      \cup {PyStr}

(***************************************************************************)
(* The engine: type promotion, broadcasting and the operators of ndarray.  *)
(* The element values an engine kernel computes are not modelled: a        *)
(* computed array holds any values of its dtype.                           *)
(***************************************************************************)
Max(a, b) == IF a >= b THEN a ELSE b

\* np.promote_types: the promotion of two dtypes, whatever the values.
promote_types(a, b) ==
    IF a = b THEN a
    ELSE IF a.kind = "b" THEN b
    ELSE IF b.kind = "b" THEN a
    ELSE IF a.kind = b.kind THEN (IF a.bits >= b.bits THEN a ELSE b)
    ELSE IF a.kind = "f" \/ b.kind = "f"
    THEN LET f == IF a.kind = "f" THEN a ELSE b
             i == IF a.kind = "f" THEN b ELSE a
             need == IF i.bits = 8 THEN 16 ELSE IF i.bits = 16 THEN 32 ELSE 64
         IN  DType("f", Max(f.bits, need))
    ELSE LET s == IF a.kind = "i" THEN a ELSE b
             u == IF a.kind = "i" THEN b ELSE a
         IN  IF u.bits < s.bits THEN s
             ELSE IF u.bits >= 64 THEN float64
             ELSE DType("i", 2 * u.bits)

\* np.min_scalar_type of the value v of a zero-dimensional array of dtype d.
min_scalar_type(v, d) ==
    IF d.kind = "b" THEN bool
    ELSE IF d.kind = "f" THEN (IF Abs(v) <= 65504 THEN float16 ELSE float32)
    ELSE IF v >= 0
    THEN IF v <= 255 THEN uint8 ELSE IF v <= 65535 THEN uint16 ELSE uint32
    ELSE IF v >= -128 THEN int8 ELSE IF v >= -32768 THEN int16 ELSE int32

\* The kind ordering of value-based casting: bool < integer < float.
KindOrder(d) == IF d.kind = "b" THEN 0 ELSE IF d.kind = "f" THEN 2 ELSE 1

\* The dtype the engine computes a binary ufunc in (np.result_type of two
\* arrays).  When exactly one operand is zero-dimensional and its kind is
\* not above the other's, the engine takes the minimal type of its VALUE
\* in place of its dtype (value-based casting); a non-negative value that
\* also fits the signed type of the same width counts as signed against a
\* signed or float dtype.
result_type(a, b) ==
    IF (a.shape = <<>>) = (b.shape = <<>>)
    THEN promote_types(a.dtype, b.dtype)
    ELSE LET s == IF a.shape = <<>> THEN a ELSE b
             n == IF a.shape = <<>> THEN b ELSE a
             m == min_scalar_type(s.data[1], s.dtype)
             small == m.kind = "u" /\ m.bits <= 16 /\ s.data[1] <= 2 ^ (m.bits - 1) - 1
         IN  IF KindOrder(s.dtype) > KindOrder(n.dtype)
             THEN promote_types(s.dtype, n.dtype)
             ELSE IF small /\ n.dtype.kind \in {"i", "f"}
             THEN promote_types(DType("i", m.bits), n.dtype)
             ELSE promote_types(m, n.dtype)

\* Broadcasting of two shapes: [ok, shape].
RECURSIVE broadcast_rev(_, _)
broadcast_rev(r1, r2) ==
    IF r1 = <<>> THEN [ok |-> TRUE, shape |-> r2]
    ELSE IF r2 = <<>> THEN [ok |-> TRUE, shape |-> r1]
    ELSE LET rest == broadcast_rev(Tail(r1), Tail(r2))
             a == Head(r1)
             b == Head(r2)
         IN  IF ~rest.ok \/ (a # b /\ a # 1 /\ b # 1)
             THEN [ok |-> FALSE, shape |-> <<>>]
             ELSE [ok |-> TRUE, shape |-> <<IF a = 1 THEN b ELSE a>> \o rest.shape]

Reverse(s) == [i \in 1 .. Len(s) |-> s[Len(s) + 1 - i]]

broadcast_shapes(s1, s2) ==
    LET r == broadcast_rev(Reverse(s1), Reverse(s2))
    IN  [ok |-> r.ok, shape |-> Reverse(r.shape)]

\* The dtype the loop of a ufunc returns for operands resolved to dtype rt,
\* or a TypeError when the ufunc has no loop for it.
ufunc_dtype(ufunc, rt) ==
    IF ufunc \in {"left_shift", "right_shift"}
    THEN IF rt.kind = "f"
         THEN Raise("TypeError", "ufunc not supported for the input types")
         ELSE IF rt.kind = "b" THEN int8 ELSE rt
    ELSE IF ufunc = "true_divide"
    THEN IF rt.kind = "f" THEN rt ELSE float64
    ELSE IF ufunc = "power"
    THEN IF rt.kind = "b" THEN int8 ELSE rt
    ELSE IF ufunc \in {"bitwise_and", "bitwise_or", "bitwise_xor"}
    THEN IF rt.kind = "f"
         THEN Raise("TypeError", "ufunc not supported for the input types")
         ELSE rt
    ELSE IF ufunc = "subtract"
    THEN IF rt.kind = "b"
         THEN Raise("TypeError", "numpy boolean subtract is not supported")
         ELSE rt
    ELSE IF ufunc \in {"floor_divide", "remainder"}
    THEN IF rt.kind = "b" THEN int8 ELSE rt
    ELSE rt

\* An engine result of dtype d and shape s: an array scalar when s is ().
Computed(d, s) ==
    IF s = <<>>
    THEN {NpGeneric(d, v) : v \in ElemValues(d)}
    ELSE {NdArray(d, s, data) : data \in [1 .. Size(s) -> ElemValues(d)]}

\* ufunc(a, b) of two engine arrays: the results the engine may return.
ndarray_binary(ufunc, a, b) ==
    LET d == ufunc_dtype(ufunc, result_type(a, b))
        bs == broadcast_shapes(a.shape, b.shape)
    IN  IF d.t = "raise" THEN {d}
        ELSE IF ~bs.ok
        THEN {Raise("ValueError", "operands could not be broadcast together")}
        ELSE Computed(d, bs.shape)

\* np.can_cast(from, to, casting='same_kind')
can_cast_same_kind(from, to) == KindOrder(from) <= KindOrder(to)

\* ufunc(a, b, out=a): the in-place operators of ndarray.  The results are
\* the contents of a afterwards, or the exception raised.
ndarray_inplace(ufunc, a, b) ==
    LET d == ufunc_dtype(ufunc, result_type(a, b))
        bs == broadcast_shapes(a.shape, b.shape)
    IN  IF d.t = "raise" THEN {d}
        ELSE IF ~can_cast_same_kind(d, a.dtype)
        THEN {Raise("TypeError", "Cannot cast ufunc output")}
        ELSE IF ~bs.ok \/ bs.shape # a.shape
        THEN {Raise("ValueError", "non-broadcastable output operand")}
        ELSE {NdArray(a.dtype, a.shape, data) :
                 data \in [1 .. Size(a.shape) -> ElemValues(a.dtype)]}

\* The cast of one element value to dtype d.
cast_value(v, from, d) ==
    IF d.kind = "b" THEN (IF v # 0 THEN 1 ELSE 0)
    ELSE IF d.kind = "f" THEN (IF d.bits = 32 THEN RoundFloat32(v) ELSE v)
    ELSE CastInt(v, d)

\* x.astype(d) of an engine array or array scalar.
astype(x, d) ==
    IF x.t = "generic"
    THEN NpGeneric(d, cast_value(x.v, x.dtype, d))
    ELSE NdArray(d, x.shape,
                 [i \in 1 .. Len(x.data) |-> cast_value(x.data[i], x.dtype, d)])

\* a[None]: a view of a with a leading axis of size 1.
ndarray_newaxis(a) == NdArray(a.dtype, <<1>> \o a.shape, a.data)

(***************************************************************************)
(* The operators of Array.                                                 *)
(***************************************************************************)
\* isinstance(other, (int, float, bool))
is_python_scalar(x) == x.t \in {"bool", "int", "float"}

\* Only an Array has the attributes shape, dtype and _array.
AttributeError == Raise("AttributeError", "object has no attribute")

\* _normalize_two_args without its elif branch.
_normalize_two_args_first_only(x1, x2) ==
    IF x2.t # "Array"
    THEN [res |-> AttributeError, calls |-> <<>>]
    ELSE IF shape(x1) = <<>> /\ shape(x2) # <<>>
    THEN [res |-> Pair(_new(ndarray_newaxis(x1._array)), x2),
          calls |-> <<"ndarray.__getitem__">>]
    ELSE [res |-> Pair(x1, x2), calls |-> <<>>]

\* _normalize_two_args handing its arguments back as they are.
_normalize_two_args_identity(x1, x2) ==
    IF x2.t # "Array"
    THEN [res |-> AttributeError, calls |-> <<>>]
    ELSE [res |-> Pair(x1, x2), calls |-> <<>>]

\* _normalize_two_args adding two axes to the array of shape ().
_normalize_two_args_two_axes(x1, x2) ==
    IF x2.t # "Array"
    THEN [res |-> AttributeError, calls |-> <<>>]
    ELSE IF shape(x1) = <<>> /\ shape(x2) # <<>>
    THEN [res |-> Pair(_new(ndarray_newaxis(ndarray_newaxis(x1._array))), x2),
          calls |-> <<"ndarray.__getitem__">>]
    ELSE IF shape(x2) = <<>> /\ shape(x1) # <<>>
    THEN [res |-> Pair(x1, _new(ndarray_newaxis(ndarray_newaxis(x2._array)))),
          calls |-> <<"ndarray.__getitem__">>]
    ELSE [res |-> Pair(x1, x2), calls |-> <<>>]

\* Array._normalize_two_args(x1, x2): [res, calls], res the pair returned or
\* the exception raised.
_normalize_two_args(x1, x2) ==
    IF x2.t # "Array"
    THEN [res |-> AttributeError, calls |-> <<>>]
    ELSE IF shape(x1) = <<>> /\ shape(x2) # <<>>
    THEN [res |-> Pair(_new(ndarray_newaxis(x1._array)), x2),
          calls |-> <<"ndarray.__getitem__">>]
    ELSE IF shape(x2) = <<>> /\ shape(x1) # <<>>
    THEN [res |-> Pair(x1, _new(ndarray_newaxis(x2._array))),
          calls |-> <<"ndarray.__getitem__">>]
    ELSE [res |-> Pair(x1, x2), calls |-> <<>>]

\* The first two lines of every binary operator:
\*     if isinstance(other, (int, float, bool)):
\*         other = self._promote_scalar(other)
promote_other(self, other) ==
    IF is_python_scalar(other)
    THEN _promote_scalar(self, other)
    ELSE {Out(other, <<>>, self)}

\* Wraps what an engine call gave: _new(res), or the exception it raised.
wrapped(r) == IF r.t = "raise" THEN r ELSE _new(r)

\* __add__ without the promotion of a Python scalar: a bool reaches the
\* engine as the integer it is.
__add___unpromoted(self, other) ==
    LET o == IF is_python_scalar(other)
             THEN _new(NdArray(IF other.t = "float" THEN float64 ELSE int64,
                               <<>>, <<other.v>>))
             ELSE other
        n == _normalize_two_args(self, o)
    IN  IF n.res.t = "raise"
        THEN {Out(n.res, n.calls, self)}
        ELSE {Out(wrapped(r), n.calls \o <<"ndarray.__add__">>, self) :
                 r \in ndarray_binary("add", n.res.items[1]._array, n.res.items[2]._array)}

\* __add__ without the call of _normalize_two_args.
__add___unnormalized(self, other) ==
    UNION {IF p.res.t = "raise" THEN {p}
           ELSE IF p.res.t # "Array" THEN {Out(AttributeError, p.calls, self)}
           ELSE {Out(wrapped(r), p.calls \o <<"ndarray.__add__">>, self) :
                    r \in ndarray_binary("add", self._array, p.res._array)}
             : p \in promote_other(self, other)}

\* Array.__add__
__add__(self, other) ==
    UNION {IF p.res.t = "raise" THEN {p}
           ELSE LET n == _normalize_two_args(self, p.res)
                IN  IF n.res.t = "raise"
                    THEN {Out(n.res, p.calls \o n.calls, self)}
                    ELSE {Out(wrapped(r),
                              p.calls \o n.calls \o <<"ndarray.__add__">>, self) :
                             r \in ndarray_binary("add", n.res.items[1]._array, n.res.items[2]._array)}
             : p \in promote_other(self, other)}

\* The check of the division and power operators looking at self only.
floating_only_self(self, other, name) ==
    IF dtype(self) \notin _floating_dtypes
    THEN Raise("TypeError", "Only floating-point dtypes are allowed in " \o name)
    ELSE IF other.t # "Array" THEN AttributeError
    ELSE PyNone

\* The check of the division and power operators:
\*     if self.dtype not in _floating_dtypes or other.dtype not in _floating_dtypes:
\*         raise TypeError(...)
\* PyNone when it passes, else the exception raised.
floating_only(self, other, name) ==
    LET error == Raise("TypeError", "Only floating-point dtypes are allowed in " \o name)
    IN  IF dtype(self) \notin _floating_dtypes THEN error
        ELSE IF other.t # "Array" THEN AttributeError
        ELSE IF dtype(other) \notin _floating_dtypes THEN error
        ELSE PyNone

\* Array.__truediv__
__truediv__(self, other) ==
    UNION {IF p.res.t = "raise" THEN {p}
           ELSE LET c == floating_only(self, p.res, "__truediv__")
                    n == _normalize_two_args(self, p.res)
                IN  IF c.t = "raise" THEN {Out(c, p.calls, self)}
                    ELSE {Out(wrapped(r),
                              p.calls \o n.calls \o <<"ndarray.__truediv__">>, self) :
                             r \in ndarray_binary("true_divide",
                                                  n.res.items[1]._array, n.res.items[2]._array)}
             : p \in promote_other(self, other)}

\* Array.__rtruediv__
__rtruediv__(self, other) ==
    UNION {IF p.res.t = "raise" THEN {p}
           ELSE LET c == floating_only(self, p.res, "__truediv__")
                    n == _normalize_two_args(self, p.res)
                IN  IF c.t = "raise" THEN {Out(c, p.calls, self)}
                    ELSE {Out(wrapped(r),
                              p.calls \o n.calls \o <<"ndarray.__rtruediv__">>, self) :
                             r \in ndarray_binary("true_divide",
                                                  n.res.items[2]._array, n.res.items[1]._array)}
             : p \in promote_other(self, other)}

\* pow(x1, x2) of _elementwise_functions: np.power on the normalised pair.
pow(x1, x2, calls, self) ==
    LET n == _normalize_two_args(x1, x2)
    IN  {Out(wrapped(r), calls \o n.calls \o <<"np.power">>, self) :
            r \in ndarray_binary("power", n.res.items[1]._array, n.res.items[2]._array)}

\* Array.__pow__
__pow__(self, other) ==
    UNION {IF p.res.t = "raise" THEN {p}
           ELSE LET c == floating_only(self, p.res, "__pow__")
                IN  IF c.t = "raise" THEN {Out(c, p.calls, self)}
                    ELSE pow(self, p.res, p.calls, self)
             : p \in promote_other(self, other)}

\* Array.__rpow__
__rpow__(self, other) ==
    UNION {IF p.res.t = "raise" THEN {p}
           ELSE LET c == floating_only(self, p.res, "__pow__")
                IN  IF c.t = "raise" THEN {Out(c, p.calls, self)}
                    ELSE pow(p.res, self, p.calls, self)
             : p \in promote_other(self, other)}

\* The shift operators without the cast of the engine's result.
shift_uncast(self, other, method, ufunc, reflected, to, calls) ==
    IF other.t # "Array" THEN {Out(AttributeError, calls, self)}
    ELSE {Out(wrapped(r), calls \o <<"ndarray." \o method>>, self) :
             r \in IF reflected
                   THEN ndarray_binary(ufunc, other._array, self._array)
                   ELSE ndarray_binary(ufunc, self._array, other._array)}

\* The shift operators: the engine's result, cast to the dtype of `to`.
\*     res = self._array.__lshift__(other._array).astype(self.dtype)
shift(self, other, method, ufunc, reflected, to, calls) ==
    IF other.t # "Array" THEN {Out(AttributeError, calls, self)}
    ELSE {IF r.t = "raise"
          THEN Out(r, calls \o <<"ndarray." \o method>>, self)
          ELSE Out(_new(astype(r, dtype(to))),
                   calls \o <<"ndarray." \o method, "astype">>, self) :
             r \in IF reflected
                   THEN ndarray_binary(ufunc, other._array, self._array)
                   ELSE ndarray_binary(ufunc, self._array, other._array)}

\* Array.__lshift__
__lshift__(self, other) ==
    UNION {IF p.res.t = "raise" THEN {p}
           ELSE shift(self, p.res, "__lshift__", "left_shift", FALSE, self, p.calls)
             : p \in promote_other(self, other)}

\* Array.__rshift__
__rshift__(self, other) ==
    UNION {IF p.res.t = "raise" THEN {p}
           ELSE shift(self, p.res, "__rshift__", "right_shift", FALSE, self, p.calls)
             : p \in promote_other(self, other)}

\* __rlshift__ casting to the dtype of self, as __lshift__ does.
__rlshift___self_dtype(self, other) ==
    UNION {IF p.res.t = "raise" THEN {p}
           ELSE shift(self, p.res, "__rlshift__", "left_shift", TRUE, self, p.calls)
             : p \in promote_other(self, other)}

\* Array.__rlshift__
__rlshift__(self, other) ==
    UNION {IF p.res.t = "raise" THEN {p}
           ELSE shift(self, p.res, "__rlshift__", "left_shift", TRUE, p.res, p.calls)
             : p \in promote_other(self, other)}

\* Array.__rrshift__
__rrshift__(self, other) ==
    UNION {IF p.res.t = "raise" THEN {p}
           ELSE shift(self, p.res, "__rrshift__", "right_shift", TRUE, p.res, p.calls)
             : p \in promote_other(self, other)}

\* Array.__bool__
__bool__(self) ==
    IF shape(self) # <<>>
    THEN {Out(Raise("TypeError", "bool is only allowed on arrays with shape ()"), <<>>, self)}
    ELSE {Out(PyBool(IF self._array.data[1] # 0 THEN 1 ELSE 0), <<"ndarray.__bool__">>, self)}

\* __float__ returning what the engine's __int__ gives.
__float___as_int(self) ==
    IF shape(self) # <<>>
    THEN {Out(Raise("TypeError", "float is only allowed on arrays with shape ()"), <<>>, self)}
    ELSE {Out(PyInt(self._array.data[1]), <<"ndarray.__int__">>, self)}

\* Array.__float__
__float__(self) ==
    IF shape(self) # <<>>
    THEN {Out(Raise("TypeError", "float is only allowed on arrays with shape ()"), <<>>, self)}
    ELSE {Out(PyFloat(self._array.data[1]), <<"ndarray.__float__">>, self)}

\* __int__ as the engine has it: any array of one element converts.
__int___one_element(self) ==
    IF Size(shape(self)) # 1
    THEN {Out(Raise("TypeError", "int is only allowed on arrays with shape ()"), <<>>, self)}
    ELSE {Out(PyInt(self._array.data[1]), <<"ndarray.__int__">>, self)}

\* Array.__int__
__int__(self) ==
    IF shape(self) # <<>>
    THEN {Out(Raise("TypeError", "int is only allowed on arrays with shape ()"), <<>>, self)}
    ELSE {Out(PyInt(self._array.data[1]), <<"ndarray.__int__">>, self)}

\* Array.__abs__
__abs__(self) ==
    {Out(wrapped(r), <<"ndarray.__abs__">>, self) :
        r \in Computed(dtype(self), shape(self))}

\* The module numpy._array_api.
_array_api == [t |-> "module", v |-> 0]

\* __array_namespace__ taking every version.
__array_namespace___any_version(self, api_version) ==
    {Out(_array_api, <<>>, self)}

\* Array.__array_namespace__
__array_namespace__(self, api_version) ==
    IF api_version # PyNone
    THEN {Out(Raise("ValueError", "Unrecognized array API version"), <<>>, self)}
    ELSE {Out(_array_api, <<>>, self)}

\* ndarray.__dlpack_device__(): the engine of this repository has no such
\* method; the engine that has it returns (DLDeviceType.kDLCPU, 0).
ndarray___dlpack_device__(a) ==
    {AttributeError, PyTuple(<<PyInt(1), PyInt(0)>>)}

\* Array.__dlpack_device__
__dlpack_device__(self) ==
    {Out(wrapped(r), <<"ndarray.__dlpack_device__">>, self) :
        r \in ndarray___dlpack_device__(self._array)}

\* Array.device
device(self) ==
    {Out(Raise("NotImplementedError", "The device attribute is not yet implemented"),
         <<>>, self)}

\* ndarray.__len__()
ndarray___len__(a) ==
    IF a.shape = <<>>
    THEN Raise("TypeError", "len() of unsized object")
    ELSE PyInt(a.shape[1])

\* Array.__len__
__len__(self) ==
    {Out(wrapped(ndarray___len__(self._array)), <<"ndarray.__len__">>, self)}

\* ndarray.T of an array of two axes at most.
ndarray_T(a) ==
    IF Len(a.shape) < 2 THEN a
    ELSE LET m == a.shape[1]
             n == a.shape[2]
         IN  NdArray(a.dtype, <<n, m>>,
                     [p \in 1 .. m * n |-> a.data[((p - 1) % m) * n + ((p - 1) \div m) + 1]])

\* Array.T
T(self) == {Out(ndarray_T(self._array), <<"ndarray.T">>, self)}

\* A Python scalar promoted against self and extracted again:
\*     bool(self._promote_scalar(s)), int(...), float(...)
\* by the type of s.
round_trip(self, scalar) ==
    UNION {IF p.res.t = "raise" THEN {p}
           ELSE {Out(e.res, p.calls \o e.calls, self) :
                    e \in IF isinstance_bool(scalar) THEN __bool__(p.res)
                          ELSE IF isinstance_int(scalar) THEN __int__(p.res)
                          ELSE __float__(p.res)}
             : p \in _promote_scalar(self, scalar)}

(***************************************************************************)
(* Array._validate_index                                                   *)
(***************************************************************************)
IndexError(msg) == Raise("IndexError", msg)

\* operator.index(x) succeeds: x is an int (or bool), or a zero-dimensional
\* integer engine array.
has_index(x) ==
    \/ x.t \in {"bool", "int"}
    \/ x.t = "ndarray" /\ IsIntKind(x.dtype) /\ x.shape = <<>>
    \/ x.t = "generic" /\ IsIntKind(x.dtype)

\* operator.index(x)
operator_index(x) ==
    IF x.t = "ndarray" THEN PyInt(x.data[1]) ELSE PyInt(x.v)

\* x can be compared with an integer.
is_number(x) == x.t \in {"bool", "int", "float"}

\* The slice branch with size - 1 as the upper bound of the start.
validate_slice_nomax(key, size) ==
    LET start_bad == ~(-size <= key.start.v /\ key.start.v <= size - 1)
        step == IF key.step.t = "NoneType" THEN PyInt(1) ELSE key.step
        stop_bad ==
            \/ step.v > 0 /\ ~(-size <= key.stop.v /\ key.stop.v <= size)
            \/ step.v < 0 /\ ~(-size - 1 <= key.stop.v /\ key.stop.v <= Max(0, size - 1))
        check_stop ==
            IF key.stop.t = "NoneType" THEN key
            ELSE IF ~has_index(key.stop) THEN key
            ELSE IF stop_bad
            THEN IndexError("Slices with out-of-bounds stop are not allowed in the array API namespace")
            ELSE key
    IN  IF key.start.t = "NoneType" THEN check_stop
        ELSE IF ~has_index(key.start) THEN key
        ELSE IF start_bad
        THEN IndexError("Slices with out-of-bounds start are not allowed in the array API namespace")
        ELSE check_stop

\* The slice branch with the stop bounds of a positive step for every step.
validate_slice_anystep(key, size) ==
    LET start_bad == ~(-size <= key.start.v /\ key.start.v <= Max(0, size - 1))
        stop_bad == ~(-size <= key.stop.v /\ key.stop.v <= size)
        check_stop ==
            IF key.stop.t = "NoneType" THEN key
            ELSE IF ~has_index(key.stop) THEN key
            ELSE IF stop_bad
            THEN IndexError("Slices with out-of-bounds stop are not allowed in the array API namespace")
            ELSE key
    IN  IF key.start.t = "NoneType" THEN check_stop
        ELSE IF ~has_index(key.start) THEN key
        ELSE IF start_bad
        THEN IndexError("Slices with out-of-bounds start are not allowed in the array API namespace")
        ELSE check_stop

\* The slice branch for an axis of size `size`:
\* the validated key, or the exception raised.
validate_slice(key, size) ==
    LET hi == Max(0, size - 1)
        start_bad == ~(-size <= key.start.v /\ key.start.v <= hi)
        step == IF key.step.t = "NoneType" THEN PyInt(1) ELSE key.step
        stop_bad ==
            \/ step.v > 0 /\ ~(-size <= key.stop.v /\ key.stop.v <= size)
            \/ step.v < 0 /\ ~(-size - 1 <= key.stop.v /\ key.stop.v <= hi)
        check_stop ==
            IF key.stop.t = "NoneType" THEN key
            ELSE IF ~has_index(key.stop) THEN key
            ELSE IF ~is_number(step)
            THEN Raise("TypeError", "'>' not supported between instances")
            ELSE IF stop_bad
            THEN IndexError("Slices with out-of-bounds stop are not allowed in the array API namespace")
            ELSE key
    IN  IF key.start.t = "NoneType" THEN check_stop
        ELSE IF ~has_index(key.start) THEN key
        ELSE IF start_bad
        THEN IndexError("Slices with out-of-bounds start are not allowed in the array API namespace")
        ELSE check_stop

\* A mask test that sees boolean arrays and misses the Python bool.
is_mask_arrays_only(idx) ==
    \/ idx.t = "ndarray" /\ idx.dtype \in _boolean_dtypes
    \/ idx.t = "generic" /\ idx.dtype \in _boolean_dtypes

\* idx is a boolean mask after the first pass over a tuple.
is_mask(idx) ==
    \/ idx.t = "ndarray" /\ idx.dtype \in _boolean_dtypes
    \/ idx.t = "bool"
    \/ idx.t = "generic" /\ idx.dtype \in _boolean_dtypes

\* The Array branch handing the Array on as it is.
validate_array_wrapped(key) ==
    IF dtype(key) \in _integer_dtypes /\ shape(key) # <<>>
    THEN IndexError("Integer array indices with shape != () are not allowed in the array API namespace")
    ELSE key

\* The Array branch: an integer Array of a shape other than () is refused,
\* every other Array gives its engine array.
validate_array(key) ==
    IF dtype(key) \in _integer_dtypes /\ shape(key) # <<>>
    THEN IndexError("Integer array indices with shape != () are not allowed in the array API namespace")
    ELSE key._array

\* The last branch converting floats as well.
validate_integer_truncating(key) ==
    IF has_index(key) \/ key.t = "float" THEN operator_index(key)
    ELSE IndexError("Only integers, slices, ellipsis, and boolean arrays are valid indices in the array API namespace")

\* The last branch: operator.index(key), its TypeError turned into IndexError.
validate_integer(key) ==
    IF has_index(key) THEN operator_index(key)
    ELSE IndexError("Only integers, slices, ellipsis, and boolean arrays are valid indices in the array API namespace")

\* The first element of seq[from], seq[from + 1], ... that is an exception,
\* PyNone when there is none.
RECURSIVE first_raise(_, _)
first_raise(seq, from) ==
    IF from > Len(seq) THEN PyNone
    ELSE IF seq[from].t = "raise" THEN seq[from]
    ELSE first_raise(seq, from + 1)

\* The pairs (idx, size) the tuple branch validates against one axis each:
\*     list(zip(key[:ellipsis_i], shape))
\*       + list(zip(key[:ellipsis_i:-1], shape[:ellipsis_i:-1]))
axis_pairs(items, dims, ellipsis_i) ==
    LET nlead == IF ellipsis_i < Len(dims) THEN ellipsis_i ELSE Len(dims)
        \* seq[:ellipsis_i:-1]: from the last element down to the one after
        \* position ellipsis_i (counted from 0).
        ktail == Len(items) - 1 - ellipsis_i
        stail == Len(dims) - 1 - ellipsis_i
        ntail == IF ktail < stail THEN (IF ktail > 0 THEN ktail ELSE 0)
                 ELSE (IF stail > 0 THEN stail ELSE 0)
    IN  [i \in 1 .. nlead |-> <<items[i], dims[i]>>]
          \o [i \in 1 .. ntail |-> <<items[Len(items) + 1 - i], dims[Len(dims) + 1 - i]>>]

RECURSIVE _validate_index(_, _)
_validate_index(key, shp) ==
    IF key.t = "slice"
    THEN IF shp.t = "NoneType" THEN key
         ELSE IF shp.items = <<>> THEN key
         ELSE validate_slice(key, shp.items[1])
    ELSE IF key.t = "tuple"
    THEN LET first == [i \in 1 .. Len(key.items) |-> _validate_index(key.items[i], PyNone)]
             key1 == PyTuple(first)
             masks == {i \in 1 .. Len(first) : is_mask(first[i])}
             n_ellipsis == Cardinality({i \in 1 .. Len(first) : first[i].t = "ellipsis"})
             ellipsis_i ==
                 IF n_ellipsis > 0
                 THEN (CHOOSE i \in 1 .. Len(first) : first[i].t = "ellipsis") - 1
                 ELSE Len(first)
             pairs == axis_pairs(first, shp.items, ellipsis_i)
             second == [i \in 1 .. Len(pairs) |->
                          _validate_index(pairs[i][1], PyTuple(<<pairs[i][2]>>))]
         IN  IF first_raise(first, 1).t = "raise" THEN first_raise(first, 1)
             ELSE IF masks # {}
             THEN IF Len(first) = 1 THEN key1
                  ELSE IndexError("Boolean array indices combined with other indices are not allowed in the array API namespace")
             ELSE IF shp.t = "NoneType" THEN key1
             ELSE IF n_ellipsis > 1 THEN key1
             ELSE IF first_raise(second, 1).t = "raise" THEN first_raise(second, 1)
             ELSE key1
    ELSE IF key.t = "bool" THEN key
    ELSE IF key.t = "Array"
    THEN validate_array(key)
    ELSE IF key.t = "ellipsis" THEN key
    ELSE IF key.t = "NoneType"
    THEN IndexError("newaxis indices are not allowed in the array API namespace")
    ELSE validate_integer(key)

(***************************************************************************)
(* The heap.  mem holds the cells of every buffer of the engine; an object *)
(* is an Array whose engine array has a dtype and a shape over a sequence  *)
(* of cells of mem, in row-major order.  Two objects share a buffer when   *)
(* they have cells in common.                                              *)
(***************************************************************************)
\* A reference to the object id of the heap.
Ref(id) == [t |-> "ref", id |-> id]

\* An outcome of a method on the heap: what it returned or raised, the
\* engine calls it issued, and the heap afterwards.
HOut(res, calls, h) == [res |-> res, calls |-> calls, heap |-> h]

\* The engine array of object id as a value.
ndarray_of(h, id) ==
    LET o == h.objs[id]
    IN  NdArray(o.dtype, o.shape, [i \in 1 .. Len(o.cells) |-> h.mem[o.cells[i]]])

\* The object id as a value.
Deref(h, id) == [t |-> "Array", _array |-> ndarray_of(h, id)]

\* Array._new(x) for an engine result x with a buffer of its own: the new
\* object is the last one of the heap.
Alloc(h, x) ==
    LET a == _new(x)._array
    IN  [mem |-> h.mem \o a.data,
         objs |-> Append(h.objs,
                         [dtype |-> a.dtype, shape |-> a.shape,
                          cells |-> [i \in 1 .. Len(a.data) |-> Len(h.mem) + i]])]

\* Array._new(x) for an engine view x of object id: the elements at the
\* positions sel of the object, with the given shape, on the same cells.
View(h, id, shp, sel) ==
    [h EXCEPT !.objs =
        Append(@, [dtype |-> h.objs[id].dtype, shape |-> shp,
                   cells |-> [i \in 1 .. Len(sel) |-> h.objs[id].cells[sel[i]]]])]

\* The engine writes values[i] into the element at position sel[i] of
\* object id.
Write(h, id, sel, values) ==
    LET cells == h.objs[id].cells
    IN  [h EXCEPT !.mem =
            [a \in 1 .. Len(h.mem) |->
                IF \E i \in 1 .. Len(sel) : cells[sel[i]] = a
                THEN values[CHOOSE i \in 1 .. Len(sel) : cells[sel[i]] = a]
                ELSE h.mem[a]]]

\* The object gets a buffer of its own holding the array x.
Rebind(h, id, x) ==
    [mem |-> h.mem \o x.data,
     objs |-> [h.objs EXCEPT ![id] =
                  [dtype |-> x.dtype, shape |-> x.shape,
                   cells |-> [i \in 1 .. Len(x.data) |-> Len(h.mem) + i]]]]

\* Every position of an array of shape shp.
AllPositions(shp) == [i \in 1 .. Size(shp) |-> i]

(***************************************************************************)
(* The engine: indexing.                                                   *)
(***************************************************************************)
Min(a, b) == IF a <= b THEN a ELSE b

\* slice(start, stop, step).indices(n) as the indices it runs through,
\* counted from 0; step is not 0.
slice_indices(start, stop, step, n) ==
    LET k == IF step.t = "NoneType" THEN 1 ELSE step.v
        lower == IF k > 0 THEN 0 ELSE -1
        upper == IF k > 0 THEN n ELSE n - 1
        clip(v) == IF v < 0 THEN Max(v + n, lower) ELSE Min(v, upper)
        b == IF start.t = "NoneType" THEN (IF k > 0 THEN lower ELSE upper) ELSE clip(start.v)
        e == IF stop.t = "NoneType" THEN (IF k > 0 THEN upper ELSE lower) ELSE clip(stop.v)
        len == IF k > 0
               THEN (IF e > b THEN (e - b + k - 1) \div k ELSE 0)
               ELSE (IF b > e THEN (b - e - k - 1) \div (-k) ELSE 0)
    IN  [i \in 1 .. len |-> b + (i - 1) * k]

\* k is an integer index for the engine.
is_integer_index(k) ==
    k.t = "int" \/ (k.t \in {"ndarray", "generic"} /\ has_index(k))

\* What the index k selects on an axis of size n: [rows, keep], the indices
\* from 0 and whether the axis stays, or the exception of the engine.
axis_select(k, n) ==
    IF is_integer_index(k)
    THEN LET i == operator_index(k).v
         IN  IF i >= n \/ i < -n
             THEN IndexError("index is out of bounds for axis")
             ELSE [t |-> "axis", rows |-> <<IF i < 0 THEN i + n ELSE i>>, keep |-> FALSE]
    ELSE IF \E f \in {k.start, k.stop, k.step} : f.t \notin {"NoneType", "int"}
    THEN Raise("TypeError", "slice indices must be integers or None or have an __index__ method")
    ELSE IF k.step = PyInt(0)
    THEN Raise("ValueError", "slice step cannot be zero")
    ELSE [t |-> "axis", rows |-> slice_indices(k.start, k.stop, k.step, n), keep |-> TRUE]

\* A selection: the shape of the result, the positions selected in the
\* array, whether it is a view (basic indexing) and whether the engine
\* gives an array scalar for it.
Selection(shp, sel, basic, scalar) ==
    [t |-> "selection", shape |-> shp, sel |-> sel, basic |-> basic, scalar |-> scalar]

\* The elements a boolean mask selects along the first axis.
mask_select(a, mask) ==
    LET rs == Size(Tail(a.shape))
        rows == {r \in 1 .. Len(mask.data) : mask.data[r] # 0}
        nth(j) == CHOOSE r \in rows : Cardinality({q \in rows : q < r}) = j - 1
    IN  Selection(<<Cardinality(rows)>> \o Tail(a.shape),
                  [p \in 1 .. Cardinality(rows) * rs |->
                      (nth(((p - 1) \div rs) + 1) - 1) * rs + ((p - 1) % rs) + 1],
                  FALSE, FALSE)

\* The elements the validated key selects in the engine array a, or the
\* exception of the engine.  The keys modelled are an integer, a slice,
\* Ellipsis, a boolean mask, and a tuple of up to two integers and slices.
RECURSIVE ndarray_select(_, _)
ndarray_select(a, key) ==
    IF key.t = "tuple" /\ Len(key.items) = 0
    THEN Selection(a.shape, AllPositions(a.shape), TRUE, a.shape = <<>>)
    ELSE IF key.t = "tuple" /\ Len(key.items) = 1
    THEN ndarray_select(a, key.items[1])
    ELSE IF key.t = "tuple"
    THEN IF Len(key.items) > Len(a.shape)
         THEN IndexError("too many indices for array")
         ELSE LET r == axis_select(key.items[1], a.shape[1])
                  c == axis_select(key.items[2], a.shape[2])
                  rs == Size(Tail(a.shape))
                  cs == Size(Tail(Tail(a.shape)))
                  n == Len(c.rows) * cs
              IN  IF r.t = "raise" THEN r
                  ELSE IF c.t = "raise" THEN c
                  ELSE Selection((IF r.keep THEN <<Len(r.rows)>> ELSE <<>>)
                                    \o (IF c.keep THEN <<Len(c.rows)>> ELSE <<>>)
                                    \o Tail(Tail(a.shape)),
                                 [p \in 1 .. Len(r.rows) * n |->
                                     r.rows[((p - 1) \div n) + 1] * rs
                                       + c.rows[(((p - 1) % n) \div cs) + 1] * cs
                                       + ((p - 1) % cs) + 1],
                                 TRUE,
                                 ~r.keep /\ ~c.keep /\ Len(a.shape) = 2)
    ELSE IF key.t = "ellipsis"
    THEN Selection(a.shape, AllPositions(a.shape), TRUE, FALSE)
    ELSE IF key.t = "bool" \/ (key.t \in {"ndarray", "generic"} /\ key.dtype.kind = "b"
                                  /\ (key.t = "generic" \/ key.shape = <<>>))
    THEN LET on == IF key.t = "ndarray" THEN key.data[1] # 0 ELSE key.v # 0
         IN  Selection(<<IF on THEN 1 ELSE 0>> \o a.shape,
                       IF on THEN AllPositions(a.shape) ELSE <<>>, FALSE, FALSE)
    ELSE IF key.t = "ndarray" /\ key.dtype.kind = "b"
    THEN IF Len(key.shape) = 1 /\ Len(a.shape) >= 1 /\ key.shape[1] = a.shape[1]
         THEN mask_select(a, key)
         ELSE IndexError("boolean index did not match indexed array")
    ELSE IF key.t \in {"ndarray", "generic"} /\ ~has_index(key)
    THEN IndexError("arrays used as indices must be of integer (or boolean) type")
    ELSE IF a.shape = <<>>
    THEN IndexError("too many indices for array")
    ELSE LET r == axis_select(key, a.shape[1])
             rs == Size(Tail(a.shape))
         IN  IF r.t = "raise" THEN r
             ELSE Selection((IF r.keep THEN <<Len(r.rows)>> ELSE <<>>) \o Tail(a.shape),
                            [p \in 1 .. Len(r.rows) * rs |->
                                r.rows[((p - 1) \div rs) + 1] * rs + ((p - 1) % rs) + 1],
                            TRUE,
                            ~r.keep /\ Len(a.shape) = 1)

\* The elements of a at the positions sel, as an array of shape shp.
take(a, shp, sel) == NdArray(a.dtype, shp, [i \in 1 .. Len(sel) |-> a.data[sel[i]]])

\* The position, from 0, in an array of shape vshape of the element that
\* broadcasting puts at position p, from 0, of an array of shape tshape.
RECURSIVE broadcast_index(_, _, _)
broadcast_index(p, tshape, vshape) ==
    IF vshape = <<>> THEN 0
    ELSE LET tn == tshape[Len(tshape)]
             vn == vshape[Len(vshape)]
         IN  broadcast_index(p \div tn, SubSeq(tshape, 1, Len(tshape) - 1),
                             SubSeq(vshape, 1, Len(vshape) - 1)) * vn
               + (IF vn = 1 THEN 0 ELSE p % tn)

\* The values assigning the array v to a selection of shape shp of an array
\* of dtype d writes, in order, or the exception of the engine.
assigned_values(v, shp, d) ==
    LET bs == broadcast_shapes(v.shape, shp)
    IN  IF ~bs.ok \/ bs.shape # shp
        THEN Raise("ValueError", "could not broadcast input array")
        ELSE [t |-> "values",
              data |-> [p \in 1 .. Size(shp) |->
                           cast_value(v.data[broadcast_index(p - 1, shp, v.shape) + 1],
                                      v.dtype, d)]]

(***************************************************************************)
(* The methods of Array that write into a buffer or return a view, on the  *)
(* heap: id is the receiver.                                               *)
(***************************************************************************)
\* asarray(value) of _creation_functions: an Array as it is, a Python
\* scalar as an array of shape () of the engine's default dtype.
asarray(value) ==
    IF value.t = "Array" THEN value
    ELSE _new(NdArray(IF value.t = "bool" THEN bool
                      ELSE IF value.t = "int" THEN int64 ELSE float64,
                      <<>>, <<value.v>>))

\* __getitem__ handing None to the engine, which adds an axis for it.
__getitem___newaxis(h, id, key) ==
    LET self == Deref(h, id)
        k == IF key.t = "NoneType" THEN key
             ELSE _validate_index(key, PyTuple(shape(self)))
        r == IF key.t = "NoneType"
             THEN Selection(<<1>> \o shape(self), AllPositions(shape(self)), TRUE, FALSE)
             ELSE ndarray_select(self._array, k)
        calls == <<"ndarray.__getitem__">>
    IN  IF k.t = "raise" THEN {HOut(k, <<>>, h)}
        ELSE IF r.t = "raise" THEN {HOut(r, calls, h)}
        ELSE IF r.scalar
        THEN {HOut(Ref(Len(h.objs) + 1), calls,
                   Alloc(h, NpGeneric(dtype(self), self._array.data[r.sel[1]])))}
        ELSE IF r.basic
        THEN {HOut(Ref(Len(h.objs) + 1), calls, View(h, id, r.shape, r.sel))}
        ELSE {HOut(Ref(Len(h.objs) + 1), calls, Alloc(h, take(self._array, r.shape, r.sel)))}

\* Array.__getitem__: the key is validated against the shape, the engine
\* indexes, and _new wraps what it gives: a view on the cells of the
\* receiver for basic indexing, an array of its own otherwise; an array
\* scalar is copied into a new array of shape ().
__getitem__(h, id, key) ==
    LET self == Deref(h, id)
        k == _validate_index(key, PyTuple(shape(self)))
        r == ndarray_select(self._array, k)
        calls == <<"ndarray.__getitem__">>
    IN  IF k.t = "raise" THEN {HOut(k, <<>>, h)}
        ELSE IF r.t = "raise" THEN {HOut(r, calls, h)}
        ELSE IF r.scalar
        THEN {HOut(Ref(Len(h.objs) + 1), calls,
                   Alloc(h, NpGeneric(dtype(self), self._array.data[r.sel[1]])))}
        ELSE IF r.basic
        THEN {HOut(Ref(Len(h.objs) + 1), calls, View(h, id, r.shape, r.sel))}
        ELSE {HOut(Ref(Len(h.objs) + 1), calls, Alloc(h, take(self._array, r.shape, r.sel)))}

\* __setitem__ writing into a copy of the engine array, which it then binds
\* to the receiver.
__setitem___copying(h, id, key, value) ==
    LET self == Deref(h, id)
        k == _validate_index(key, PyTuple(shape(self)))
        v == asarray(value)._array
        r == ndarray_select(self._array, k)
        w == assigned_values(v, r.shape, dtype(self))
        calls == <<"np.asarray", "ndarray.copy", "ndarray.__setitem__">>
    IN  IF k.t = "raise" THEN {HOut(k, <<>>, h)}
        ELSE IF r.t = "raise" THEN {HOut(r, calls, h)}
        ELSE IF w.t = "raise" THEN {HOut(w, calls, h)}
        ELSE {HOut(_new(PyNone), calls,
                   Rebind(h, id, ndarray_of(Write(h, id, r.sel, w.data), id)))}

\* Array.__setitem__: the key is validated, the value converted by asarray,
\* and the engine writes it, cast to the dtype of the receiver, into the
\* elements the key selects; the None the engine returns is wrapped.
__setitem__(h, id, key, value) ==
    LET self == Deref(h, id)
        k == _validate_index(key, PyTuple(shape(self)))
        v == asarray(value)._array
        r == ndarray_select(self._array, k)
        w == assigned_values(v, r.shape, dtype(self))
        calls == <<"np.asarray", "ndarray.__setitem__">>
    IN  IF k.t = "raise" THEN {HOut(k, <<>>, h)}
        ELSE IF r.t = "raise" THEN {HOut(r, calls, h)}
        ELSE IF w.t = "raise" THEN {HOut(w, calls, h)}
        ELSE {HOut(_new(PyNone), calls, Write(h, id, r.sel, w.data))}

\* An in-place operator returning a new Array on the buffer it wrote.
in_place_rewrapping(h, id, other, method, ufunc) ==
    LET self == Deref(h, id)
    IN  UNION {IF p.res.t = "raise" THEN {HOut(p.res, p.calls, h)}
               ELSE IF p.res.t # "Array" THEN {HOut(AttributeError, p.calls, h)}
               ELSE {IF r.t = "raise"
                     THEN HOut(r, p.calls \o <<"ndarray." \o method>>, h)
                     ELSE HOut(Ref(Len(h.objs) + 1), p.calls \o <<"ndarray." \o method>>,
                               View(Write(h, id, AllPositions(r.shape), r.data), id,
                                    r.shape, AllPositions(r.shape))) :
                        r \in ndarray_inplace(ufunc, self._array, p.res._array)}
                 : p \in promote_other(self, other)}

\* The in-place operators but for /=, **= and @=:
\*     if isinstance(other, (int, float, bool)):
\*         other = self._promote_scalar(other)
\*     self._array.__iadd__(other._array)
\*     return self
in_place(h, id, other, method, ufunc) ==
    LET self == Deref(h, id)
    IN  UNION {IF p.res.t = "raise" THEN {HOut(p.res, p.calls, h)}
               ELSE IF p.res.t # "Array" THEN {HOut(AttributeError, p.calls, h)}
               ELSE {IF r.t = "raise"
                     THEN HOut(r, p.calls \o <<"ndarray." \o method>>, h)
                     ELSE HOut(Ref(id), p.calls \o <<"ndarray." \o method>>,
                               Write(h, id, AllPositions(r.shape), r.data)) :
                        r \in ndarray_inplace(ufunc, self._array, p.res._array)}
                 : p \in promote_other(self, other)}

\* Array.__iadd__
__iadd__(h, id, other) == in_place(h, id, other, "__iadd__", "add")

\* Array.__iand__
__iand__(h, id, other) == in_place(h, id, other, "__iand__", "bitwise_and")

\* Array.__ifloordiv__
__ifloordiv__(h, id, other) == in_place(h, id, other, "__ifloordiv__", "floor_divide")

\* Array.__ilshift__
__ilshift__(h, id, other) == in_place(h, id, other, "__ilshift__", "left_shift")

\* Array.__imod__
__imod__(h, id, other) == in_place(h, id, other, "__imod__", "remainder")

\* Array.__imul__
__imul__(h, id, other) == in_place(h, id, other, "__imul__", "multiply")

\* Array.__ior__
__ior__(h, id, other) == in_place(h, id, other, "__ior__", "bitwise_or")

\* Array.__irshift__
__irshift__(h, id, other) == in_place(h, id, other, "__irshift__", "right_shift")

\* Array.__isub__
__isub__(h, id, other) == in_place(h, id, other, "__isub__", "subtract")

\* Array.__ixor__
__ixor__(h, id, other) == in_place(h, id, other, "__ixor__", "bitwise_xor")

\* /= and **= checking the dtypes after the engine has written.
in_place_floating_late_check(h, id, other, method, ufunc, name) ==
    LET self == Deref(h, id)
    IN  UNION {IF p.res.t = "raise" THEN {HOut(p.res, p.calls, h)}
               ELSE IF p.res.t # "Array" THEN {HOut(AttributeError, p.calls, h)}
               ELSE {IF r.t = "raise"
                     THEN HOut(r, p.calls \o <<"ndarray." \o method>>, h)
                     ELSE LET c == floating_only(self, p.res, name)
                              w == Write(h, id, AllPositions(r.shape), r.data)
                          IN  HOut(IF c.t = "raise" THEN c ELSE Ref(id),
                                   p.calls \o <<"ndarray." \o method>>, w) :
                        r \in ndarray_inplace(ufunc, self._array, p.res._array)}
                 : p \in promote_other(self, other)}

\* /= and **=: the in-place operator behind the floating-point check.
in_place_floating(h, id, other, method, ufunc, name) ==
    LET self == Deref(h, id)
    IN  UNION {IF p.res.t = "raise" THEN {HOut(p.res, p.calls, h)}
               ELSE LET c == floating_only(self, p.res, name)
                    IN  IF c.t = "raise" THEN {HOut(c, p.calls, h)}
                        ELSE {IF r.t = "raise"
                              THEN HOut(r, p.calls \o <<"ndarray." \o method>>, h)
                              ELSE HOut(Ref(id), p.calls \o <<"ndarray." \o method>>,
                                        Write(h, id, AllPositions(r.shape), r.data)) :
                                 r \in ndarray_inplace(ufunc, self._array, p.res._array)}
                 : p \in promote_other(self, other)}

\* Array.__itruediv__
__itruediv__(h, id, other) ==
    in_place_floating(h, id, other, "__itruediv__", "true_divide", "__truediv__")

\* Array.__ipow__
__ipow__(h, id, other) ==
    in_place_floating(h, id, other, "__ipow__", "power", "__pow__")

\* ndarray.__matmul__ of arrays of one or two axes: a result of the
\* promoted dtype, or the exception of the engine.
ndarray_matmul(a, b) ==
    LET ra == Len(a.shape)
        rb == Len(b.shape)
        shp == (IF ra = 1 THEN <<>> ELSE <<a.shape[1]>>)
                 \o (IF rb = 1 THEN <<>> ELSE <<b.shape[rb]>>)
    IN  IF ra = 0 \/ rb = 0
        THEN {Raise("ValueError", "matmul: Input operand does not have enough dimensions")}
        ELSE IF a.shape[ra] # (IF rb = 1 THEN b.shape[1] ELSE b.shape[rb - 1])
        THEN {Raise("ValueError", "matmul: Input operand has a mismatch in its core dimension")}
        ELSE Computed(promote_types(a.dtype, b.dtype), shp)

\* __imatmul__ refusing a receiver of one axis.
__imatmul___left_rank(h, id, other) ==
    LET self == Deref(h, id)
    IN  UNION {IF p.res.t = "raise" THEN {HOut(p.res, p.calls, h)}
               ELSE IF p.res.t # "Array" THEN {HOut(AttributeError, p.calls, h)}
               ELSE IF shape(self) = <<>> \/ shape(p.res) = <<>>
               THEN {HOut(Raise("ValueError", "@= requires at least one dimension"),
                          p.calls, h)}
               ELSE IF \/ Len(shape(self)) = 1
                       \/ Len(shape(p.res)) = 1
                       \/ shape(p.res)[Len(shape(p.res))] # shape(p.res)[Len(shape(p.res)) - 1]
               THEN {HOut(Raise("ValueError", "@= cannot change the shape of the input array"),
                          p.calls, h)}
               ELSE {IF r.t = "raise"
                     THEN HOut(r, p.calls \o <<"ndarray.__matmul__">>, h)
                     ELSE LET w == assigned_values(_new(r)._array, shape(self), dtype(self))
                              calls == p.calls \o <<"ndarray.__matmul__", "ndarray.__setitem__">>
                          IN  IF w.t = "raise" THEN HOut(w, calls, h)
                              ELSE HOut(Ref(id), calls,
                                        Write(h, id, AllPositions(shape(self)), w.data)) :
                        r \in ndarray_matmul(self._array, p.res._array)}
                 : p \in promote_other(self, other)}

\* __imatmul__ without its checks of the shapes.
__imatmul___unchecked(h, id, other) ==
    LET self == Deref(h, id)
    IN  UNION {IF p.res.t = "raise" THEN {HOut(p.res, p.calls, h)}
               ELSE IF p.res.t # "Array" THEN {HOut(AttributeError, p.calls, h)}
               ELSE {IF r.t = "raise"
                     THEN HOut(r, p.calls \o <<"ndarray.__matmul__">>, h)
                     ELSE LET w == assigned_values(_new(r)._array, shape(self), dtype(self))
                              calls == p.calls \o <<"ndarray.__matmul__", "ndarray.__setitem__">>
                          IN  IF w.t = "raise" THEN HOut(w, calls, h)
                              ELSE HOut(Ref(id), calls,
                                        Write(h, id, AllPositions(shape(self)), w.data)) :
                        r \in ndarray_matmul(self._array, p.res._array)}
                 : p \in promote_other(self, other)}

\* Array.__imatmul__: a Python scalar is promoted; an operand of shape ()
\* and a right operand that has one axis or whose last two axes differ are
\* refused; then self._array[:] = self._array.__matmul__(other._array).
__imatmul__(h, id, other) ==
    LET self == Deref(h, id)
    IN  UNION {IF p.res.t = "raise" THEN {HOut(p.res, p.calls, h)}
               ELSE IF p.res.t # "Array" THEN {HOut(AttributeError, p.calls, h)}
               ELSE IF shape(self) = <<>> \/ shape(p.res) = <<>>
               THEN {HOut(Raise("ValueError", "@= requires at least one dimension"),
                          p.calls, h)}
               ELSE IF \/ Len(shape(p.res)) = 1
                       \/ shape(p.res)[Len(shape(p.res))] # shape(p.res)[Len(shape(p.res)) - 1]
               THEN {HOut(Raise("ValueError", "@= cannot change the shape of the input array"),
                          p.calls, h)}
               ELSE {IF r.t = "raise"
                     THEN HOut(r, p.calls \o <<"ndarray.__matmul__">>, h)
                     ELSE LET w == assigned_values(_new(r)._array, shape(self), dtype(self))
                              calls == p.calls \o <<"ndarray.__matmul__", "ndarray.__setitem__">>
                          IN  IF w.t = "raise" THEN HOut(w, calls, h)
                              ELSE HOut(Ref(id), calls,
                                        Write(h, id, AllPositions(shape(self)), w.data)) :
                        r \in ndarray_matmul(self._array, p.res._array)}
                 : p \in promote_other(self, other)}

\* _normalize_two_args making the array of shape (1,) on a buffer of its
\* own.
Array__normalize_two_args_copying(h, id1, id2) ==
    LET zero(id) == h.objs[id].shape = <<>>
        new == Ref(Len(h.objs) + 1)
    IN  IF zero(id1) /\ ~zero(id2)
        THEN {HOut(Pair(new, Ref(id2)), <<"ndarray.__getitem__">>,
                   Alloc(h, ndarray_newaxis(ndarray_of(h, id1))))}
        ELSE IF zero(id2) /\ ~zero(id1)
        THEN {HOut(Pair(Ref(id1), new), <<"ndarray.__getitem__">>,
                   Alloc(h, ndarray_newaxis(ndarray_of(h, id2))))}
        ELSE {HOut(Pair(Ref(id1), Ref(id2)), <<>>, h)}

\* Array._normalize_two_args(x1, x2) on the objects id1 and id2 of the heap:
\* x._array[None] is a view of x._array, and Array._new makes the new object.
Array__normalize_two_args(h, id1, id2) ==
    LET zero(id) == h.objs[id].shape = <<>>
        new == Ref(Len(h.objs) + 1)
    IN  IF zero(id1) /\ ~zero(id2)
        THEN {HOut(Pair(new, Ref(id2)), <<"ndarray.__getitem__">>,
                   View(h, id1, <<1>>, <<1>>))}
        ELSE IF zero(id2) /\ ~zero(id1)
        THEN {HOut(Pair(Ref(id1), new), <<"ndarray.__getitem__">>,
                   View(h, id2, <<1>>, <<1>>))}
        ELSE {HOut(Pair(Ref(id1), Ref(id2)), <<>>, h)}

(***************************************************************************)
(* The engine: the functions of numpy the wrapper functions call.  A       *)
(* result whose elements are computed or cast holds any values of its      *)
(* dtype.                                                                  *)
(***************************************************************************)
\* An engine array of dtype d and shape s, of one axis or more or not.
ComputedArray(d, s) ==
    {NdArray(d, s, data) : data \in [1 .. Size(s) -> ElemValues(d)]}

AxisError == Raise("AxisError", "axis is out of bounds for array of dimension")

\* The dtype of the engine's arrays of Python objects.
object_ == DType("O", 64)

RECURSIVE promote_all(_)
promote_all(dtypes) ==
    IF Len(dtypes) = 1 THEN dtypes[1]
    ELSE promote_types(dtypes[1], promote_all(Tail(dtypes)))

RECURSIVE Sum(_)
Sum(ns) == IF ns = <<>> THEN 0 ELSE Head(ns) + Sum(Tail(ns))

\* np.concatenate(arrays, axis=axis) for axis 0 or None.
np_concatenate(arrays, axis) ==
    LET d == promote_all([i \in 1 .. Len(arrays) |-> arrays[i].dtype])
        n == Len(arrays)
    IN  IF n = 0 THEN {Raise("ValueError", "need at least one array to concatenate")}
        ELSE IF axis = PyNone
        THEN ComputedArray(d, <<Sum([i \in 1 .. n |-> Size(arrays[i].shape)])>>)
        ELSE IF \E i \in 1 .. n : arrays[i].shape = <<>>
        THEN {Raise("ValueError", "zero-dimensional arrays cannot be concatenated")}
        ELSE IF \E i \in 1 .. n : Tail(arrays[i].shape) # Tail(arrays[1].shape)
        THEN {Raise("ValueError", "all the input array dimensions must match exactly")}
        ELSE ComputedArray(d, <<Sum([i \in 1 .. n |-> arrays[i].shape[1]])>>
                                \o Tail(arrays[1].shape))

\* np.expand_dims(a, axis) for an integer axis.
np_expand_dims(a, axis) ==
    LET n == Len(a.shape)
        k == IF axis.v < 0 THEN axis.v + n + 1 ELSE axis.v
    IN  IF k < 0 \/ k > n THEN AxisError
        ELSE NdArray(a.dtype, SubSeq(a.shape, 1, k) \o <<1>> \o SubSeq(a.shape, k + 1, n),
                     a.data)

\* np.flip(a, axis=None): every axis reversed.
np_flip(a) == NdArray(a.dtype, a.shape, Reverse(a.data))

\* np.reshape(a, shape)
np_reshape(a, shp) ==
    IF Size(shp) # Size(a.shape)
    THEN Raise("ValueError", "cannot reshape array")
    ELSE NdArray(a.dtype, shp, a.data)

\* np.roll(a, shift, axis=None): the flattened array rolled.
np_roll(a, by) ==
    LET n == Len(a.data)
    IN  NdArray(a.dtype, a.shape, [i \in 1 .. n |-> a.data[((i - 1 - by) % n) + 1]])

\* np.squeeze(a, axis=None): the axes of size 1 removed.
np_squeeze(a) ==
    NdArray(a.dtype, SelectSeq(a.shape, LAMBDA n : n # 1), a.data)

\* np.stack(arrays, axis=0)
np_stack(arrays) ==
    LET n == Len(arrays)
    IN  IF n = 0 THEN {Raise("ValueError", "need at least one array to stack")}
        ELSE IF \E i \in 1 .. n : arrays[i].shape # arrays[1].shape
        THEN {Raise("ValueError", "all input arrays must have the same shape")}
        ELSE ComputedArray(promote_all([i \in 1 .. n |-> arrays[i].dtype]),
                           <<n>> \o arrays[1].shape)

\* np.argmax(a, axis=None, keepdims=keepdims) and np.argmin: the engine of
\* this repository rejects the keyword keepdims; one that takes it returns
\* the index of an element as an array scalar.
np_argmax(a) ==
    {Raise("TypeError", "argmax() got an unexpected keyword argument 'keepdims'")}
      \cup IF a.data = <<>>
           THEN {Raise("ValueError", "attempt to get argmax of an empty sequence")}
           ELSE {NpGeneric(int64, i - 1) : i \in 1 .. Len(a.data)}

\* np.asarray(x) of an engine array or array scalar.
np_asarray(x) == IF x.t = "generic" THEN NdArray(x.dtype, <<>>, <<x.v>>) ELSE x

\* The increasing sequence of the elements of a set of integers.
RECURSIVE Sorted(_)
Sorted(S) ==
    IF S = {} THEN <<>>
    ELSE LET m == CHOOSE x \in S : \A y \in S : x <= y
         IN  <<m>> \o Sorted(S \ {m})

\* np.nonzero(a) for an array of one axis at most: a tuple of one array,
\* the indices of the elements that are not 0.
np_nonzero(a) ==
    LET idx == Sorted({i - 1 : i \in {k \in 1 .. Len(a.data) : a.data[k] # 0}})
    IN  PyTuple(<<NdArray(int64, <<Len(idx)>>, idx)>>)

\* np.where(condition, x1, x2)
np_where(condition, x1, x2) ==
    LET b1 == broadcast_shapes(x1.shape, x2.shape)
        b2 == broadcast_shapes(condition.shape, b1.shape)
    IN  IF ~b1.ok \/ ~b2.ok
        THEN {Raise("ValueError", "operands could not be broadcast together")}
        ELSE ComputedArray(result_type(x1, x2), b2.shape)

\* np.unique(x, return_counts, return_index, return_inverse): the sorted
\* distinct elements, in a tuple with one array of integers more for each
\* flag set.  What is not an engine array is first made one: an object
\* with no array interface becomes the one element of an array of objects,
\* unless the engine takes it for a sequence and fails on its length.
np_unique(x, return_counts, return_index, return_inverse) ==
    LET values == IF x.t = "ndarray"
                  THEN LET u == Sorted({x.data[i] : i \in 1 .. Len(x.data)})
                       IN  NdArray(x.dtype, <<Len(u)>>, u)
                  ELSE NdArray(object_, <<1>>, <<x>>)
        n == IF x.t = "ndarray" THEN Len(x.data) ELSE 1
        \* The contents of the arrays of integers are not modelled.
        per_value == NdArray(int64, values.shape, [k \in 1 .. Len(values.data) |-> 0])
        per_element == NdArray(int64, <<n>>, [k \in 1 .. n |-> 0])
        outputs == <<values>>
                     \o (IF return_index THEN <<per_value>> ELSE <<>>)
                     \o (IF return_inverse THEN <<per_element>> ELSE <<>>)
                     \o (IF return_counts THEN <<per_value>> ELSE <<>>)
    IN  {IF Len(outputs) = 1 THEN values ELSE PyTuple(outputs)}
          \cup IF x.t = "ndarray" THEN {}
               ELSE {Raise("TypeError", "object cannot be interpreted as an integer")}

(***************************************************************************)
(* The wrapper functions of _manipulation_functions.py,                    *)
(* _searching_functions.py and _set_functions.py.                          *)
(***************************************************************************)
\* The names the module _array_object.py defines or imports.
_array_object_names ==
    {"operator", "IntEnum", "asarray", "_boolean_dtypes", "_integer_dtypes",
     "_floating_dtypes", "TYPE_CHECKING", "Any", "Optional", "Tuple", "Union", "np",
     "Array"}

\* from ._array_object import <name>: PyNone, or the ImportError raised when
\* the module of the function is loaded.
import_from_array_object(name) ==
    IF name \in _array_object_names THEN PyNone
    ELSE Raise("ImportError", "cannot import name from numpy._array_api._array_object")

\* The engine arrays of a tuple of Arrays: tuple(a._array for a in arrays)
raw_arrays(arrays) == [i \in 1 .. Len(arrays) |-> arrays[i]._array]

\* A function of _manipulation_functions.py, which imports the name ndarray
\* from _array_object: its outcomes are those of its body when the import
\* succeeds.
manipulation(body, x) ==
    LET i == import_from_array_object("ndarray")
    IN  IF i.t = "raise" THEN {Out(i, <<>>, x)} ELSE body

\* A function of _searching_functions.py, which imports the name Array.
searching(body, x) ==
    LET i == import_from_array_object("Array")
    IN  IF i.t = "raise" THEN {Out(i, <<>>, x)} ELSE body

\* concat(arrays, axis=0)
concat(arrays, axis) ==
    manipulation({Out(wrapped(r), <<"np.concatenate">>, arrays[1]) :
                     r \in np_concatenate(raw_arrays(arrays), axis)}, arrays[1])

\* expand_dims(x, axis)
expand_dims(x, axis) ==
    manipulation({Out(wrapped(np_expand_dims(x._array, axis)), <<"np.expand_dims">>, x)}, x)

\* flip(x, axis=None)
flip(x) == manipulation({Out(wrapped(np_flip(x._array)), <<"np.flip">>, x)}, x)

\* reshape(x, shape)
reshape(x, shp) ==
    manipulation({Out(wrapped(np_reshape(x._array, shp)), <<"np.reshape">>, x)}, x)

\* roll(x, shift, axis=None)
roll(x, by) ==
    manipulation({Out(wrapped(np_roll(x._array, by)), <<"np.roll">>, x)}, x)

\* squeeze(x, axis=None): ndarray._array(...), an attribute the class does
\* not have, is looked up after the engine has returned.
squeeze(x) == manipulation({Out(AttributeError, <<"np.squeeze">>, x)}, x)

\* stack(arrays, axis=0): as squeeze.
stack(arrays) ==
    manipulation({Out(IF r.t = "raise" THEN r ELSE AttributeError, <<"np.stack">>, arrays[1]) :
                     r \in np_stack(raw_arrays(arrays))}, arrays[1])

\* argmax(x, axis=None, keepdims=False)
argmax(x) ==
    searching({Out(IF r.t = "raise" THEN r ELSE _new(np_asarray(r)),
                   IF r.t = "raise" THEN <<"np.argmax">> ELSE <<"np.argmax", "np.asarray">>, x) :
                  r \in np_argmax(x._array)}, x)

\* argmin(x, axis=None, keepdims=False)
argmin(x) ==
    searching({Out(IF r.t = "raise" THEN r ELSE _new(np_asarray(r)),
                   IF r.t = "raise" THEN <<"np.argmin">> ELSE <<"np.argmin", "np.asarray">>, x) :
                  r \in np_argmax(x._array)}, x)

\* nonzero(x): Array._new(np.nonzero(x._array))
nonzero(x) == searching({Out(_new(np_nonzero(x._array)), <<"np.nonzero">>, x)}, x)

\* where(condition, x1, x2)
where(condition, x1, x2) ==
    searching({Out(wrapped(r), <<"np.where">>, condition) :
                  r \in np_where(condition._array, x1._array, x2._array)}, condition)

\* unique(x, return_counts, return_index, return_inverse): np.unique is
\* given x itself and what it returns is returned as it is.
unique(x, return_counts, return_index, return_inverse) ==
    {Out(r, <<"np.unique">>, x) :
        r \in np_unique(x, return_counts, return_index, return_inverse)}

(***************************************************************************)
(* The state machine.                                                      *)
(***************************************************************************)
\* The heap with nothing in it.
NoHeap == [mem |-> <<>>, objs |-> <<>>]

Init ==
    /\ arr \in {_new(x) : x \in NdUniverse}
    /\ heap = NoHeap
    /\ this = 0
    /\ op = "idle"
    /\ arg = PyNone
    /\ result = PyNone
    /\ engine = <<>>

\* No call is in progress.
Idle == op = "idle"

\* The call in progress returns to its caller: its frame is dropped.
Done ==
    /\ ~Idle
    /\ op' = "idle"
    /\ arg' = PyNone
    /\ result' = PyNone
    /\ engine' = <<>>
    /\ arr' = arr
    /\ heap' = heap
    /\ this' = 0

\* A creation function hands an engine array or array scalar to Array._new.
Create ==
    /\ Idle
    /\ \E x \in NdUniverse \cup {NpGeneric(d, 1) : d \in ArrayDtypes} :
        /\ op' = "_new"
        /\ arg' = x
        /\ result' = _new(x)
        /\ engine' = <<>>
        /\ arr' = _new(x)
        /\ UNCHANGED <<heap, this>>

\* Array(*args, **kwargs)
Instantiate ==
    /\ Idle
    /\ \E args \in {<<>>, <<arr._array>>, <<PyInt(1)>>, <<arr>>} :
        \E r \in __new__(args) :
            /\ op' = "__new__"
            /\ arg' = args
            /\ result' = r
            /\ engine' = <<>>
            /\ arr' = arr
            /\ UNCHANGED <<heap, this>>

PromoteScalar ==
    /\ Idle
    /\ \E s \in Scalars :
        \E o \in _promote_scalar(arr, s) :
            /\ op' = "_promote_scalar"
            /\ arg' = s
            /\ result' = o.res
            /\ engine' = o.calls
            /\ arr' = o.self
            /\ UNCHANGED <<heap, this>>

\* The operands of the binary operators: Python scalars, an object that is
\* neither a scalar nor an Array, and Arrays.
Operands == Scalars \cup {_new(x) : x \in NdUniverse}

Add ==
    /\ Idle
    /\ \E other \in Operands :
        \E o \in __add__(arr, other) :
            /\ op' = "__add__"
            /\ arg' = other
            /\ result' = o.res
            /\ engine' = o.calls
            /\ arr' = o.self
            /\ UNCHANGED <<heap, this>>

TrueDiv ==
    /\ Idle
    /\ \E other \in Operands :
        \E o \in __truediv__(arr, other) :
            /\ op' = "__truediv__"
            /\ arg' = other
            /\ result' = o.res
            /\ engine' = o.calls
            /\ arr' = o.self
            /\ UNCHANGED <<heap, this>>

RTrueDiv ==
    /\ Idle
    /\ \E other \in Operands :
        \E o \in __rtruediv__(arr, other) :
            /\ op' = "__rtruediv__"
            /\ arg' = other
            /\ result' = o.res
            /\ engine' = o.calls
            /\ arr' = o.self
            /\ UNCHANGED <<heap, this>>

\* __itruediv__ on a receiver that shares its buffer with no other object.
ITrueDiv ==
    /\ Idle
    /\ \E other \in Operands :
        \E o \in __itruediv__(Alloc(NoHeap, arr._array), 1, other) :
            /\ op' = "__itruediv__"
            /\ arg' = other
            /\ result' = IF o.res.t = "ref" THEN Deref(o.heap, o.res.id) ELSE o.res
            /\ engine' = o.calls
            /\ arr' = Deref(o.heap, 1)
            /\ UNCHANGED <<heap, this>>

Pow ==
    /\ Idle
    /\ \E other \in Operands :
        \E o \in __pow__(arr, other) :
            /\ op' = "__pow__"
            /\ arg' = other
            /\ result' = o.res
            /\ engine' = o.calls
            /\ arr' = o.self
            /\ UNCHANGED <<heap, this>>

RPow ==
    /\ Idle
    /\ \E other \in Operands :
        \E o \in __rpow__(arr, other) :
            /\ op' = "__rpow__"
            /\ arg' = other
            /\ result' = o.res
            /\ engine' = o.calls
            /\ arr' = o.self
            /\ UNCHANGED <<heap, this>>

\* __ipow__ on a receiver that shares its buffer with no other object.
IPow ==
    /\ Idle
    /\ \E other \in Operands :
        \E o \in __ipow__(Alloc(NoHeap, arr._array), 1, other) :
            /\ op' = "__ipow__"
            /\ arg' = other
            /\ result' = IF o.res.t = "ref" THEN Deref(o.heap, o.res.id) ELSE o.res
            /\ engine' = o.calls
            /\ arr' = Deref(o.heap, 1)
            /\ UNCHANGED <<heap, this>>

LShift ==
    /\ Idle
    /\ \E other \in Operands :
        \E o \in __lshift__(arr, other) :
            /\ op' = "__lshift__"
            /\ arg' = other
            /\ result' = o.res
            /\ engine' = o.calls
            /\ arr' = o.self
            /\ UNCHANGED <<heap, this>>

RShift ==
    /\ Idle
    /\ \E other \in Operands :
        \E o \in __rshift__(arr, other) :
            /\ op' = "__rshift__"
            /\ arg' = other
            /\ result' = o.res
            /\ engine' = o.calls
            /\ arr' = o.self
            /\ UNCHANGED <<heap, this>>

RLShift ==
    /\ Idle
    /\ \E other \in Operands :
        \E o \in __rlshift__(arr, other) :
            /\ op' = "__rlshift__"
            /\ arg' = other
            /\ result' = o.res
            /\ engine' = o.calls
            /\ arr' = o.self
            /\ UNCHANGED <<heap, this>>

RRShift ==
    /\ Idle
    /\ \E other \in Operands :
        \E o \in __rrshift__(arr, other) :
            /\ op' = "__rrshift__"
            /\ arg' = other
            /\ result' = o.res
            /\ engine' = o.calls
            /\ arr' = o.self
            /\ UNCHANGED <<heap, this>>

ToBool ==
    /\ Idle
    /\ \E o \in __bool__(arr) :
        /\ op' = "__bool__"
        /\ arg' = PyNone
        /\ result' = o.res
        /\ engine' = o.calls
        /\ arr' = o.self
        /\ UNCHANGED <<heap, this>>

ToFloat ==
    /\ Idle
    /\ \E o \in __float__(arr) :
        /\ op' = "__float__"
        /\ arg' = PyNone
        /\ result' = o.res
        /\ engine' = o.calls
        /\ arr' = o.self
        /\ UNCHANGED <<heap, this>>

ToInt ==
    /\ Idle
    /\ \E o \in __int__(arr) :
        /\ op' = "__int__"
        /\ arg' = PyNone
        /\ result' = o.res
        /\ engine' = o.calls
        /\ arr' = o.self
        /\ UNCHANGED <<heap, this>>

UnaryAbs ==
    /\ Idle
    /\ \E o \in __abs__(arr) :
        /\ op' = "__abs__"
        /\ arg' = PyNone
        /\ result' = o.res
        /\ engine' = o.calls
        /\ arr' = o.self
        /\ UNCHANGED <<heap, this>>

DlpackDevice ==
    /\ Idle
    /\ \E o \in __dlpack_device__(arr) :
        /\ op' = "__dlpack_device__"
        /\ arg' = PyNone
        /\ result' = o.res
        /\ engine' = o.calls
        /\ arr' = o.self
        /\ UNCHANGED <<heap, this>>

Device ==
    /\ Idle
    /\ \E o \in device(arr) :
        /\ op' = "device"
        /\ arg' = PyNone
        /\ result' = o.res
        /\ engine' = o.calls
        /\ arr' = o.self
        /\ UNCHANGED <<heap, this>>

Length ==
    /\ Idle
    /\ \E o \in __len__(arr) :
        /\ op' = "__len__"
        /\ arg' = PyNone
        /\ result' = o.res
        /\ engine' = o.calls
        /\ arr' = o.self
        /\ UNCHANGED <<heap, this>>

Transpose ==
    /\ Idle
    /\ \E o \in T(arr) :
        /\ op' = "T"
        /\ arg' = PyNone
        /\ result' = o.res
        /\ engine' = o.calls
        /\ arr' = o.self
        /\ UNCHANGED <<heap, this>>

\* The values given as api_version; None is also its default.
ApiVersions == {PyNone, PyStr, PyInt(0), PyBool(0), PyTuple(<<>>)}

ArrayNamespace ==
    /\ Idle
    /\ \E v \in ApiVersions :
        \E o \in __array_namespace__(arr, v) :
            /\ op' = "__array_namespace__"
            /\ arg' = v
            /\ result' = o.res
            /\ engine' = o.calls
            /\ arr' = o.self
            /\ UNCHANGED <<heap, this>>

RoundTrip ==
    /\ Idle
    /\ \E s \in Scalars :
        \E o \in round_trip(arr, s) :
            /\ op' = "round_trip"
            /\ arg' = s
            /\ result' = o.res
            /\ engine' = o.calls
            /\ arr' = o.self
            /\ UNCHANGED <<heap, this>>

Next ==
    \/ Create
    \/ Instantiate
    \/ PromoteScalar
    \/ Add
    \/ TrueDiv
    \/ RTrueDiv
    \/ ITrueDiv
    \/ Pow
    \/ RPow
    \/ IPow
    \/ LShift
    \/ RShift
    \/ RLShift
    \/ RRShift
    \/ ToBool
    \/ ToFloat
    \/ ToInt
    \/ RoundTrip
    \/ UnaryAbs
    \/ ArrayNamespace
    \/ DlpackDevice
    \/ Device
    \/ Length
    \/ Transpose
    \/ Done

Spec == Init /\ [][Next]_vars

(***************************************************************************)
(* Array._validate_index on its own: the keys and shapes it is given.      *)
(***************************************************************************)
SliceBounds == {PyNone, PyStr} \cup {PyInt(i) : i \in -MaxIdx .. MaxIdx}

SliceSteps == {PyNone} \cup {PyInt(k) : k \in -MaxStep .. MaxStep}

Slices == {PySlice(i, j, k) : i \in SliceBounds, j \in SliceBounds, k \in SliceSteps}

\* The Arrays used as index components: boolean masks, integer arrays of
\* shape () and of another shape, and a floating-point array.
IndexArrays ==
    {_new(NdArray(bool, <<2>>, <<1, 0>>)), _new(NdArray(bool, <<>>, <<1>>)),
     _new(NdArray(int8, <<>>, <<1>>)), _new(NdArray(int8, <<2>>, <<1, 1>>)),
     _new(NdArray(uint8, <<>>, <<1>>)), _new(NdArray(float32, <<>>, <<1>>))}

\* The elements of tuple keys.
IndexComponents ==
    IndexArrays
      \cup {PyBool(1), PyInt(0), PyInt(MaxIdx), PyFloat(2), PyStr, PyNone, PyEllipsis,
            NpGeneric(int8, 1),
            PySlice(PyNone, PyNone, PyNone), PySlice(PyInt(MaxIdx), PyNone, PyNone)}

\* The tuple keys: every tuple of up to three components, and two nested ones.
TupleKeys ==
    {PyTuple(<<>>)}
      \cup {PyTuple(<<a>>) : a \in IndexComponents}
      \cup {PyTuple(<<a, b>>) : a \in IndexComponents, b \in IndexComponents}
      \cup {PyTuple(<<a, b, c>>) :
               a \in IndexComponents, b \in IndexComponents, c \in IndexComponents}
      \cup {PyTuple(<<PyTuple(<<PyNone>>), PyInt(0)>>),
            PyTuple(<<PyTuple(<<PyBool(1)>>), PyInt(0)>>)}

IndexKeys ==
    Slices \cup TupleKeys \cup IndexComponents \cup {PyInt(i) : i \in -MaxIdx .. MaxIdx}

IndexShapes ==
    {PyNone, PyTuple(<<>>)}
      \cup {PyTuple(<<n>>) : n \in 0 .. MaxAxis}
      \cup {PyTuple(<<m, n>>) : m \in {0, MaxAxis}, n \in {1, MaxAxis}}
      \cup {PyTuple(<<1, 2, MaxAxis>>)}

ValidateIndex ==
    /\ Idle
    /\ \E key \in IndexKeys, shp \in IndexShapes :
        /\ op' = "_validate_index"
        /\ arg' = Pair(key, shp)
        /\ result' = _validate_index(key, shp)
        /\ engine' = <<>>
        /\ arr' = arr
        /\ UNCHANGED <<heap, this>>

InitIndex ==
    /\ arr = _new(NdArray(int8, <<1>>, <<1>>))
    /\ op = "idle"
    /\ arg = PyNone
    /\ result = PyNone
    /\ engine = <<>>
    /\ heap = NoHeap
    /\ this = 0

NextIndex ==
    \/ ValidateIndex
    \/ Done

SpecIndex == InitIndex /\ [][NextIndex]_vars

(***************************************************************************)
(* Arrays that share buffers: the heap holds an array and the views and    *)
(* results indexing makes of it; any object of the heap is the receiver of *)
(* the next call.  arr is the first object of the heap, as a value.        *)
(***************************************************************************)
HeapDtypes == {int8, float32}

HeapShapes == {<<>>, <<3>>, <<2, 2>>}

\* The array operands of the in-place operators.
HeapArrays ==
    {_new(NdArray(int8, s, [i \in 1 .. Size(s) |-> 1])) :
        s \in {<<>>, <<3>>, <<2, 1>>, <<2, 2>>, <<2, 3>>, <<3, 3>>}}
      \cup {_new(NdArray(float32, s, [i \in 1 .. Size(s) |-> 3])) : s \in {<<>>, <<3>>}}

HeapOperands == {PyBool(1), PyInt(1), PyFloat(2), PyStr} \cup HeapArrays

\* The keys of __getitem__ and __setitem__.
HeapKeys ==
    {PyInt(0), PyInt(-1), PyInt(MaxIdx), PyEllipsis, PyNone, PyStr,
     PySlice(PyNone, PyNone, PyNone), PySlice(PyInt(1), PyNone, PyNone),
     PySlice(PyNone, PyNone, PyInt(2)), PySlice(PyInt(MaxIdx), PyNone, PyNone),
     PySlice(PyNone, PyNone, PyInt(0)),
     PyTuple(<<PyNone>>), PyTuple(<<PySlice(PyNone, PyNone, PyNone), PyNone>>),
     PyTuple(<<PyNone, PyInt(0)>>),
     PyTuple(<<PyInt(0), PySlice(PyNone, PyNone, PyNone), PyNone>>),
     PyTuple(<<PyTuple(<<PyNone>>), PyInt(0)>>),
     PyTuple(<<_new(NdArray(bool, <<3>>, <<1, 0, 1>>)), PyInt(0)>>),
     PyTuple(<<PyInt(0), PyInt(1)>>),
     _new(NdArray(int8, <<>>, <<1>>)), _new(NdArray(int8, <<2>>, <<1, 1>>))}

\* The values of __setitem__.
SetValues ==
    {PyInt(1), PyFloat(1),
     _new(NdArray(int8, <<3>>, <<1, 1, 1>>)), _new(NdArray(float32, <<2>>, <<1, 1>>))}

InitHeap ==
    /\ heap \in {Alloc(NoHeap, x) :
                    x \in UNION {{NdArray(d, s, data) :
                                     data \in [1 .. Size(s) -> ElemValues(d)]} :
                                   d \in HeapDtypes, s \in HeapShapes}}
    /\ arr = Deref(heap, 1)
    /\ this = 0
    /\ op = "idle"
    /\ arg = PyNone
    /\ result = PyNone
    /\ engine = <<>>

GetItem ==
    /\ Idle
    /\ \E id \in 1 .. Len(heap.objs), key \in HeapKeys :
        \E o \in __getitem__(heap, id, key) :
            /\ Len(o.heap.objs) <= MaxObjects
            /\ op' = "__getitem__"
            /\ arg' = key
            /\ result' = o.res
            /\ engine' = o.calls
            /\ heap' = o.heap
            /\ this' = id
            /\ arr' = Deref(o.heap, 1)

SetItem ==
    /\ Idle
    /\ \E id \in 1 .. Len(heap.objs), key \in HeapKeys, value \in SetValues :
        \E o \in __setitem__(heap, id, key, value) :
            /\ op' = "__setitem__"
            /\ arg' = Pair(key, value)
            /\ result' = o.res
            /\ engine' = o.calls
            /\ heap' = o.heap
            /\ this' = id
            /\ arr' = Deref(o.heap, 1)

IAdd ==
    /\ Idle
    /\ \E id \in 1 .. Len(heap.objs), other \in HeapOperands :
        \E o \in __iadd__(heap, id, other) :
            /\ Len(o.heap.objs) <= MaxObjects
            /\ op' = "__iadd__"
            /\ arg' = other
            /\ result' = o.res
            /\ engine' = o.calls
            /\ heap' = o.heap
            /\ this' = id
            /\ arr' = Deref(o.heap, 1)

IAnd ==
    /\ Idle
    /\ \E id \in 1 .. Len(heap.objs), other \in HeapOperands :
        \E o \in __iand__(heap, id, other) :
            /\ Len(o.heap.objs) <= MaxObjects
            /\ op' = "__iand__"
            /\ arg' = other
            /\ result' = o.res
            /\ engine' = o.calls
            /\ heap' = o.heap
            /\ this' = id
            /\ arr' = Deref(o.heap, 1)

IFloorDiv ==
    /\ Idle
    /\ \E id \in 1 .. Len(heap.objs), other \in HeapOperands :
        \E o \in __ifloordiv__(heap, id, other) :
            /\ Len(o.heap.objs) <= MaxObjects
            /\ op' = "__ifloordiv__"
            /\ arg' = other
            /\ result' = o.res
            /\ engine' = o.calls
            /\ heap' = o.heap
            /\ this' = id
            /\ arr' = Deref(o.heap, 1)

ILShift ==
    /\ Idle
    /\ \E id \in 1 .. Len(heap.objs), other \in HeapOperands :
        \E o \in __ilshift__(heap, id, other) :
            /\ Len(o.heap.objs) <= MaxObjects
            /\ op' = "__ilshift__"
            /\ arg' = other
            /\ result' = o.res
            /\ engine' = o.calls
            /\ heap' = o.heap
            /\ this' = id
            /\ arr' = Deref(o.heap, 1)

IMatmul ==
    /\ Idle
    /\ \E id \in 1 .. Len(heap.objs), other \in HeapOperands :
        \E o \in __imatmul__(heap, id, other) :
            /\ Len(o.heap.objs) <= MaxObjects
            /\ op' = "__imatmul__"
            /\ arg' = other
            /\ result' = o.res
            /\ engine' = o.calls
            /\ heap' = o.heap
            /\ this' = id
            /\ arr' = Deref(o.heap, 1)

IMod ==
    /\ Idle
    /\ \E id \in 1 .. Len(heap.objs), other \in HeapOperands :
        \E o \in __imod__(heap, id, other) :
            /\ Len(o.heap.objs) <= MaxObjects
            /\ op' = "__imod__"
            /\ arg' = other
            /\ result' = o.res
            /\ engine' = o.calls
            /\ heap' = o.heap
            /\ this' = id
            /\ arr' = Deref(o.heap, 1)

IMul ==
    /\ Idle
    /\ \E id \in 1 .. Len(heap.objs), other \in HeapOperands :
        \E o \in __imul__(heap, id, other) :
            /\ Len(o.heap.objs) <= MaxObjects
            /\ op' = "__imul__"
            /\ arg' = other
            /\ result' = o.res
            /\ engine' = o.calls
            /\ heap' = o.heap
            /\ this' = id
            /\ arr' = Deref(o.heap, 1)

IOr ==
    /\ Idle
    /\ \E id \in 1 .. Len(heap.objs), other \in HeapOperands :
        \E o \in __ior__(heap, id, other) :
            /\ Len(o.heap.objs) <= MaxObjects
            /\ op' = "__ior__"
            /\ arg' = other
            /\ result' = o.res
            /\ engine' = o.calls
            /\ heap' = o.heap
            /\ this' = id
            /\ arr' = Deref(o.heap, 1)

IPowOnHeap ==
    /\ Idle
    /\ \E id \in 1 .. Len(heap.objs), other \in HeapOperands :
        \E o \in __ipow__(heap, id, other) :
            /\ Len(o.heap.objs) <= MaxObjects
            /\ op' = "__ipow__"
            /\ arg' = other
            /\ result' = o.res
            /\ engine' = o.calls
            /\ heap' = o.heap
            /\ this' = id
            /\ arr' = Deref(o.heap, 1)

IRShift ==
    /\ Idle
    /\ \E id \in 1 .. Len(heap.objs), other \in HeapOperands :
        \E o \in __irshift__(heap, id, other) :
            /\ Len(o.heap.objs) <= MaxObjects
            /\ op' = "__irshift__"
            /\ arg' = other
            /\ result' = o.res
            /\ engine' = o.calls
            /\ heap' = o.heap
            /\ this' = id
            /\ arr' = Deref(o.heap, 1)

ISub ==
    /\ Idle
    /\ \E id \in 1 .. Len(heap.objs), other \in HeapOperands :
        \E o \in __isub__(heap, id, other) :
            /\ Len(o.heap.objs) <= MaxObjects
            /\ op' = "__isub__"
            /\ arg' = other
            /\ result' = o.res
            /\ engine' = o.calls
            /\ heap' = o.heap
            /\ this' = id
            /\ arr' = Deref(o.heap, 1)

ITrueDivOnHeap ==
    /\ Idle
    /\ \E id \in 1 .. Len(heap.objs), other \in HeapOperands :
        \E o \in __itruediv__(heap, id, other) :
            /\ Len(o.heap.objs) <= MaxObjects
            /\ op' = "__itruediv__"
            /\ arg' = other
            /\ result' = o.res
            /\ engine' = o.calls
            /\ heap' = o.heap
            /\ this' = id
            /\ arr' = Deref(o.heap, 1)

IXor ==
    /\ Idle
    /\ \E id \in 1 .. Len(heap.objs), other \in HeapOperands :
        \E o \in __ixor__(heap, id, other) :
            /\ Len(o.heap.objs) <= MaxObjects
            /\ op' = "__ixor__"
            /\ arg' = other
            /\ result' = o.res
            /\ engine' = o.calls
            /\ heap' = o.heap
            /\ this' = id
            /\ arr' = Deref(o.heap, 1)

NextHeap ==
    \/ GetItem
    \/ SetItem
    \/ IAdd
    \/ IAnd
    \/ IFloorDiv
    \/ ILShift
    \/ IMatmul
    \/ IMod
    \/ IMul
    \/ IOr
    \/ IPowOnHeap
    \/ IRShift
    \/ ISub
    \/ ITrueDivOnHeap
    \/ IXor
    \/ Done

SpecHeap == InitHeap /\ [][NextHeap]_vars

(***************************************************************************)
(* Array._normalize_two_args on its own: two Arrays, each on a buffer of   *)
(* its own, and the pairs of them (an Array with itself included) handed   *)
(* to the static method.                                                   *)
(***************************************************************************)
PairArrays ==
    UNION {{NdArray(d, s, data) : data \in [1 .. Size(s) -> ElemValues(d)]} :
             d \in HeapDtypes, s \in Shapes}

InitPair ==
    /\ heap \in {Alloc(Alloc(NoHeap, x1), x2) : x1 \in PairArrays, x2 \in PairArrays}
    /\ arr = Deref(heap, 1)
    /\ this = 0
    /\ op = "idle"
    /\ arg = PyNone
    /\ result = PyNone
    /\ engine = <<>>

NormalizeTwoArgs ==
    /\ Idle
    /\ \E id1 \in 1 .. Len(heap.objs), id2 \in 1 .. Len(heap.objs) :
        \E o \in Array__normalize_two_args(heap, id1, id2) :
            /\ Len(o.heap.objs) <= MaxObjects + 1
            /\ op' = "_normalize_two_args"
            /\ arg' = Pair(Ref(id1), Ref(id2))
            /\ result' = o.res
            /\ engine' = o.calls
            /\ heap' = o.heap
            /\ this' = 0
            /\ arr' = Deref(o.heap, 1)

NextPair ==
    \/ NormalizeTwoArgs
    \/ Done

SpecPair == InitPair /\ [][NextPair]_vars

(***************************************************************************)
(* The wrapper functions: each is called on the Array arr, and on the      *)
(* other Arrays and parameters it takes.                                   *)
(***************************************************************************)
\* The Arrays given with arr to the functions of several arrays.
FunctionArrays ==
    {_new(NdArray(int8, <<2>>, <<1, -1>>)), _new(NdArray(float32, <<>>, <<1>>)),
     _new(NdArray(bool, <<1>>, <<0>>))}

Concat ==
    /\ Idle
    /\ \E arrays \in {<<arr>>} \cup {<<arr, y>> : y \in FunctionArrays}, axis \in {PyInt(0), PyNone} :
        \E o \in concat(arrays, axis) :
            /\ op' = "concat"
            /\ arg' = Pair(PyTuple(arrays), axis)
            /\ result' = o.res
            /\ engine' = o.calls
            /\ arr' = arr
            /\ UNCHANGED <<heap, this>>

ExpandDims ==
    /\ Idle
    /\ \E axis \in {PyInt(0), PyInt(-1), PyInt(MaxAxis)} :
        \E o \in expand_dims(arr, axis) :
            /\ op' = "expand_dims"
            /\ arg' = axis
            /\ result' = o.res
            /\ engine' = o.calls
            /\ arr' = arr
            /\ UNCHANGED <<heap, this>>

Flip ==
    /\ Idle
    /\ \E o \in flip(arr) :
        /\ op' = "flip"
        /\ arg' = PyNone
        /\ result' = o.res
        /\ engine' = o.calls
        /\ arr' = arr
        /\ UNCHANGED <<heap, this>>

Reshape ==
    /\ Idle
    /\ \E shp \in {<<>>, <<1>>, <<2>>, <<1, 2>>} :
        \E o \in reshape(arr, shp) :
            /\ op' = "reshape"
            /\ arg' = PyTuple(shp)
            /\ result' = o.res
            /\ engine' = o.calls
            /\ arr' = arr
            /\ UNCHANGED <<heap, this>>

Roll ==
    /\ Idle
    /\ \E by \in {-1, 1} :
        \E o \in roll(arr, by) :
            /\ op' = "roll"
            /\ arg' = PyInt(by)
            /\ result' = o.res
            /\ engine' = o.calls
            /\ arr' = arr
            /\ UNCHANGED <<heap, this>>

Squeeze ==
    /\ Idle
    /\ \E o \in squeeze(arr) :
        /\ op' = "squeeze"
        /\ arg' = PyNone
        /\ result' = o.res
        /\ engine' = o.calls
        /\ arr' = arr
        /\ UNCHANGED <<heap, this>>

Stack ==
    /\ Idle
    /\ \E arrays \in {<<arr>>} \cup {<<arr, y>> : y \in FunctionArrays} :
        \E o \in stack(arrays) :
            /\ op' = "stack"
            /\ arg' = PyTuple(arrays)
            /\ result' = o.res
            /\ engine' = o.calls
            /\ arr' = arr
            /\ UNCHANGED <<heap, this>>

ArgMax ==
    /\ Idle
    /\ \E o \in argmax(arr) :
        /\ op' = "argmax"
        /\ arg' = PyNone
        /\ result' = o.res
        /\ engine' = o.calls
        /\ arr' = arr
        /\ UNCHANGED <<heap, this>>

ArgMin ==
    /\ Idle
    /\ \E o \in argmin(arr) :
        /\ op' = "argmin"
        /\ arg' = PyNone
        /\ result' = o.res
        /\ engine' = o.calls
        /\ arr' = arr
        /\ UNCHANGED <<heap, this>>

NonZero ==
    /\ Idle
    /\ \E o \in nonzero(arr) :
        /\ op' = "nonzero"
        /\ arg' = PyNone
        /\ result' = o.res
        /\ engine' = o.calls
        /\ arr' = arr
        /\ UNCHANGED <<heap, this>>

Where ==
    /\ Idle
    /\ \E x1 \in FunctionArrays, x2 \in FunctionArrays :
        \E o \in where(arr, x1, x2) :
            /\ op' = "where"
            /\ arg' = Pair(x1, x2)
            /\ result' = o.res
            /\ engine' = o.calls
            /\ arr' = arr
            /\ UNCHANGED <<heap, this>>

Unique ==
    /\ Idle
    /\ \E rc \in BOOLEAN, ri \in BOOLEAN, rv \in BOOLEAN :
        \E o \in unique(arr, rc, ri, rv) :
            /\ op' = "unique"
            /\ arg' = PyTuple(<<PyBool(IF rc THEN 1 ELSE 0), PyBool(IF ri THEN 1 ELSE 0), PyBool(IF rv THEN 1 ELSE 0)>>)
            /\ result' = o.res
            /\ engine' = o.calls
            /\ arr' = arr
            /\ UNCHANGED <<heap, this>>

NextFunctions ==
    \/ Concat
    \/ ExpandDims
    \/ Flip
    \/ Reshape
    \/ Roll
    \/ Squeeze
    \/ Stack
    \/ ArgMax
    \/ ArgMin
    \/ NonZero
    \/ Where
    \/ Unique
    \/ Done

SpecFunctions == Init /\ [][NextFunctions]_vars

(***************************************************************************)
(* The claims.                                                             *)
(***************************************************************************)
TypeErrorRaised(r) == r.t = "raise" /\ r.exc = "TypeError"

\* The dtype class of d: boolean, integer or floating-point.
ClassOf(d) == IF d.kind = "b" THEN "boolean" ELSE IF d.kind = "f" THEN "floating" ELSE "integer"

\* C1: Array(...) with any arguments raises TypeError and yields no Array;
\* every Array a call returns comes from another operation and is the object
\* Array._new makes of what it was given.
C1_NoDirectInstantiation ==
    /\ op = "__new__" => TypeErrorRaised(result)
    /\ result.t = "Array" => op # "__new__" /\ result = _new(result._array)

C1_Witness == op = "__new__" /\ Len(arg) = 1 /\ result.t = "raise"

\* The scalar kinds _promote_scalar accepts for the receiver's dtype.
PromotionAccepts(scalar, d) ==
    \/ scalar.t = "bool" /\ ClassOf(d) = "boolean"
    \/ scalar.t = "int" /\ ClassOf(d) # "boolean"
    \/ scalar.t = "float" /\ ClassOf(d) = "floating"

\* C2 as stated: a call of an accepted kind returns a shape () Array of the
\* receiver's dtype whose value is the scalar, every other call raises
\* TypeError.
C2_AsStated ==
    op = "_promote_scalar" =>
        IF PromotionAccepts(arg, dtype(arr))
        THEN /\ result.t = "Array"
             /\ shape(result) = <<>>
             /\ dtype(result) = dtype(arr)
             /\ result._array.data[1] = arg.v
        ELSE TypeErrorRaised(result)

\* The value v is held exactly by dtype d: an integer in the range of an
\* integer dtype; an integral value of magnitude up to 2^24 in float32;
\* 0 or 1 in bool.  float64 holds every value of the model.
ExactIn(v, d) ==
    IF d.kind = "b" THEN v \in {0, 1}
    ELSE IF d.kind = "f" THEN d.bits = 64 \/ Abs(v) <= 16777216
    ELSE InRange(v, d)

\* C2, amended: a call of an accepted kind returns a shape () Array of the
\* receiver's dtype, whose value is the scalar when the dtype holds it
\* exactly, or raises OverflowError for an int outside the range of an
\* integer dtype; every other call raises TypeError.
C2_PromoteScalar ==
    op = "_promote_scalar" =>
        IF PromotionAccepts(arg, dtype(arr))
        THEN \/ /\ result.t = "Array"
                /\ shape(result) = <<>>
                /\ dtype(result) = dtype(arr)
                /\ ExactIn(arg.v, dtype(arr)) => result._array.data[1] = arg.v
             \/ /\ result.t = "raise"
                /\ result.exc = "OverflowError"
                /\ arg.t = "int"
                /\ ClassOf(dtype(arr)) = "integer"
                /\ ~InRange(arg.v, dtype(arr))
        ELSE TypeErrorRaised(result)

C2_Witness ==
    /\ op = "_promote_scalar"
    /\ arg = PyInt(200)
    /\ dtype(arr) = int16
    /\ result.t = "Array"
    /\ result._array.data = <<200>>

\* C3: a + s for a Python bool s raises TypeError with no engine call when
\* the dtype of a is not boolean, and returns an Array when it is.
C3_BoolScalarAdd ==
    op = "__add__" /\ arg.t = "bool" =>
        IF ClassOf(dtype(arr)) = "boolean"
        THEN result.t = "Array"
        ELSE TypeErrorRaised(result) /\ engine = <<>>

C3_Witness ==
    /\ op = "__add__"
    /\ arg = PyBool(1)
    /\ dtype(arr) = int8
    /\ TypeErrorRaised(result)

\* The last call was a binary operator on two Arrays of which exactly one
\* has shape (), and it returned an Array.
MixedRankCall ==
    /\ arg.t = "Array"
    /\ result.t = "Array"
    /\ (shape(arr) = <<>>) # (shape(arg) = <<>>)

\* The dtypes of the operand of shape () and of the other one.
ZeroDimDtype == IF shape(arr) = <<>> THEN dtype(arr) ELSE dtype(arg)
NonZeroDimDtype == IF shape(arr) = <<>> THEN dtype(arg) ELSE dtype(arr)

C5_DtypeOnlyPromotion ==
    op \in {"__add__", "__truediv__", "__rtruediv__"} /\ MixedRankCall =>
        dtype(result) = promote_types(dtype(arr), dtype(arg))

C5_Witness ==
    /\ op = "__add__"
    /\ MixedRankCall
    /\ dtype(arr) = float32
    /\ shape(arr) = <<1>>
    /\ dtype(arg) = float64
    /\ shape(arg) = <<>>
    /\ dtype(result) = float64

DivPowOps ==
    {"__truediv__", "__rtruediv__", "__itruediv__", "__pow__", "__rpow__", "__ipow__"}

\* The last call was a division or power whose operand, a Python scalar
\* promoted without error or an Array, left a dtype that is not floating.
NonFloatingOperands ==
    /\ op \in DivPowOps
    /\ arg.t \in {"bool", "int", "float", "Array"}
    /\ arg.t # "Array" => PromotionAccepts(arg, dtype(arr))
    /\ ~(result.t = "raise" /\ result.exc = "OverflowError")
    /\ \/ ClassOf(dtype(arr)) # "floating"
       \/ arg.t = "Array" /\ ClassOf(dtype(arg)) # "floating"

\* The last call was a division or power with both dtypes floating.
FloatingOperands ==
    /\ op \in DivPowOps
    /\ arg.t \in {"int", "float", "Array"}
    /\ ClassOf(dtype(arr)) = "floating"
    /\ arg.t = "Array" => ClassOf(dtype(arg)) = "floating"

FloatingOnlyError(r) ==
    /\ TypeErrorRaised(r)
    /\ r.msg \in {"Only floating-point dtypes are allowed in __truediv__",
                  "Only floating-point dtypes are allowed in __pow__"}

\* C6 as stated: a division or power on a dtype that is not floating raises
\* TypeError before any engine call; with both dtypes floating the check
\* does not reject.
C6_AsStated ==
    /\ NonFloatingOperands => TypeErrorRaised(result) /\ engine = <<>>
    /\ FloatingOperands => ~FloatingOnlyError(result)

\* C6, amended: such a call raises TypeError before any engine operator is
\* called and without changing the receiver; the one engine call that may
\* come before the check is np.array making the promoted Python scalar.
C6_Checked ==
    /\ NonFloatingOperands =>
          /\ TypeErrorRaised(result)
          /\ engine \in {<<>>, <<"np.array">>}
          /\ engine = <<"np.array">> => arg.t # "Array"
    /\ FloatingOperands => ~FloatingOnlyError(result)

C6_FloatingOnly == [][C6_Checked' /\ (NonFloatingOperands' => arr' = arr)]_vars

C6_Witness ==
    /\ op = "__itruediv__"
    /\ arg.t = "Array"
    /\ dtype(arr) = float32
    /\ dtype(arg) = int8
    /\ FloatingOnlyError(result)

\* C7: arr << other and arr >> other return the dtype of arr.
C7_ShiftDtype ==
    op \in {"__lshift__", "__rshift__"} /\ result.t = "Array" =>
        dtype(result) = dtype(arr)

C7_Witness ==
    /\ op = "__lshift__"
    /\ arg.t = "Array"
    /\ dtype(arr) = int8
    /\ shape(arr) = <<2>>
    /\ dtype(arg) = int16
    /\ shape(arg) = <<2>>
    /\ result.t = "Array"

\* C8: __rlshift__ and __rrshift__ return the dtype of other, which for a
\* Python scalar is the dtype it was promoted to, that of the receiver.
C8_ReverseShiftDtype ==
    op \in {"__rlshift__", "__rrshift__"} /\ result.t = "Array" =>
        dtype(result) = IF arg.t = "Array" THEN dtype(arg) ELSE dtype(arr)

C8_Witness ==
    /\ op = "__rrshift__"
    /\ arg.t = "Array"
    /\ dtype(arr) = int16
    /\ shape(arr) = <<2>>
    /\ dtype(arg) = int8
    /\ shape(arg) = <<2>>
    /\ result.t = "Array"
    /\ dtype(result) = int8

\* The last call validated a slice against a shape of one axis.
SliceCall ==
    /\ op = "_validate_index"
    /\ arg.items[1].t = "slice"
    /\ arg.items[2].t = "tuple"
    /\ Len(arg.items[2].items) = 1

SliceKey == arg.items[1]
AxisSize == arg.items[2].items[1]

StartError(r) ==
    r = IndexError("Slices with out-of-bounds start are not allowed in the array API namespace")

StopError(r) ==
    r = IndexError("Slices with out-of-bounds stop are not allowed in the array API namespace")

StartInBounds(i, n) == -n <= i /\ i <= (IF n - 1 > 0 THEN n - 1 ELSE 0)

\* C9: a slice with integer start i on an axis of size n fails on its start
\* with an IndexError exactly when i is outside -n .. max(0, n-1); an
\* omitted start never fails; the only other IndexError is that of an
\* integer stop, and with the stop omitted the slice is returned as it is.
C9_SliceStart ==
    SliceCall =>
        /\ SliceKey.start.t = "int" =>
              (StartError(result) <=> ~StartInBounds(SliceKey.start.v, AxisSize))
        /\ SliceKey.start.t = "NoneType" => ~StartError(result)
        /\ result.t = "raise" /\ ~StartError(result) =>
              StopError(result) /\ SliceKey.stop.t = "int"
        /\ /\ SliceKey.stop.t = "NoneType"
           /\ \/ SliceKey.start.t = "NoneType"
              \/ SliceKey.start.t = "int" /\ StartInBounds(SliceKey.start.v, AxisSize)
           => result = SliceKey

C9_Witness ==
    /\ SliceCall
    /\ AxisSize = 0
    /\ SliceKey.start = PyInt(0)
    /\ SliceKey.stop.t = "NoneType"
    /\ result = SliceKey

StopInBounds(j, k, n) ==
    IF k > 0 THEN -n <= j /\ j <= n
    ELSE -n - 1 <= j /\ j <= (IF n - 1 > 0 THEN n - 1 ELSE 0)

\* C10: a slice with a start in bounds or omitted and step k (1 when
\* omitted, never 0) on an axis of size n is returned as it is when its stop
\* is omitted or is an integer j inside -n .. n for k > 0, inside
\* -n-1 .. max(0, n-1) for k < 0, and fails with the out-of-bounds stop
\* IndexError for every other integer j.
C10_SliceStop ==
    /\ SliceCall
    /\ SliceKey.stop.t \in {"int", "NoneType"}
    /\ \/ SliceKey.start.t = "NoneType"
       \/ SliceKey.start.t = "int" /\ StartInBounds(SliceKey.start.v, AxisSize)
    /\ SliceKey.step.t = "int" => SliceKey.step.v # 0
    => LET k == IF SliceKey.step.t = "int" THEN SliceKey.step.v ELSE 1
       IN  IF SliceKey.stop.t = "NoneType"
           THEN result = SliceKey
           ELSE IF StopInBounds(SliceKey.stop.v, k, AxisSize)
           THEN result = SliceKey
           ELSE StopError(result)

C10_Witness ==
    /\ SliceCall
    /\ AxisSize = 3
    /\ SliceKey.start.t = "NoneType"
    /\ SliceKey.stop = PyInt(-4)
    /\ SliceKey.step = PyInt(-1)
    /\ result = SliceKey

\* The last call validated a key against a shape.
ValidateCall == op = "_validate_index"

IndexKey == arg.items[1]
IndexShape == arg.items[2]

IndexErrorRaised(r) == r.t = "raise" /\ r.exc = "IndexError"

\* x is a boolean mask as the caller passes it: a Python bool or an Array
\* of boolean dtype.
IsMask(x) == x.t = "bool" \/ (x.t = "Array" /\ dtype(x) \in _boolean_dtypes)

\* C11: a tuple key holding a boolean mask and at least one other element
\* fails with an IndexError for every shape; a tuple holding only a boolean
\* mask is accepted.
C11_MaskInTuple ==
    /\ ValidateCall
    /\ IndexKey.t = "tuple"
    /\ \E i \in 1 .. Len(IndexKey.items) : IsMask(IndexKey.items[i])
    => IF Len(IndexKey.items) = 1
       THEN result.t = "tuple" /\ Len(result.items) = 1
       ELSE IndexErrorRaised(result)

C11_Witness ==
    /\ ValidateCall
    /\ IndexKey = PyTuple(<<PyBool(1), PyInt(0)>>)
    /\ IndexShape = PyTuple(<<MaxAxis, MaxAxis>>)
    /\ result = IndexError("Boolean array indices combined with other indices are not allowed in the array API namespace")

\* x is an Array of integer dtype and of a shape other than ().
IsIntegerArrayWithAxes(x) ==
    x.t = "Array" /\ dtype(x) \in _integer_dtypes /\ shape(x) # <<>>

\* C13: an integer Array as a key or as an element of a tuple key is refused
\* with an IndexError when its shape is not (); an integer Array of shape ()
\* and a boolean Array of any shape are accepted as a key, and every Array
\* of an accepted key is replaced by its engine array in the key returned.
C13_ArrayComponent ==
    ValidateCall =>
        /\ IndexKey.t = "Array" =>
              IF IsIntegerArrayWithAxes(IndexKey)
              THEN IndexErrorRaised(result)
              ELSE result = IndexKey._array
        /\ IndexKey.t = "tuple" =>
              /\ (\E i \in 1 .. Len(IndexKey.items) :
                      IsIntegerArrayWithAxes(IndexKey.items[i]))
                   => IndexErrorRaised(result)
              /\ result.t = "tuple" =>
                    /\ Len(result.items) = Len(IndexKey.items)
                    /\ \A i \in 1 .. Len(IndexKey.items) :
                          IndexKey.items[i].t = "Array" =>
                              result.items[i] = IndexKey.items[i]._array

C13_Witness ==
    /\ ValidateCall
    /\ IndexKey = PyTuple(<<_new(NdArray(int8, <<>>, <<1>>)), PySlice(PyNone, PyNone, PyNone)>>)
    /\ IndexShape = PyTuple(<<MaxAxis, MaxAxis>>)
    /\ result = PyTuple(<<NdArray(int8, <<>>, <<1>>), PySlice(PyNone, PyNone, PyNone)>>)

\* x converts to an integer index: a Python int, or an engine integer of
\* shape ().
ConvertsToIndex(x) ==
    \/ x.t = "int"
    \/ x.t = "generic" /\ x.dtype \in _integer_dtypes
    \/ x.t = "ndarray" /\ x.dtype \in _integer_dtypes /\ x.shape = <<>>

\* C14: a key that is no slice, tuple, bool, Array, Ellipsis or None is
\* returned as the Python int it converts to, whatever the shape, and fails
\* with an IndexError when it does not convert; Ellipsis is returned as it
\* is.
C14_IntegerOrError ==
    ValidateCall =>
        /\ IndexKey.t \in {"int", "float", "str", "generic", "ndarray"} =>
              IF ConvertsToIndex(IndexKey)
              THEN result = PyInt(IF IndexKey.t = "ndarray" THEN IndexKey.data[1]
                                  ELSE IndexKey.v)
              ELSE IndexErrorRaised(result)
        /\ IndexKey.t = "ellipsis" => result = IndexKey

C14_Witness ==
    /\ ValidateCall
    /\ IndexKey = PyInt(MaxIdx)
    /\ IndexShape = PyTuple(<<1>>)
    /\ result = PyInt(MaxIdx)

\* C18: __bool__, __int__ and __float__ raise TypeError, without calling
\* the engine, on every array of a shape other than (), one of shape (1,)
\* included; a native scalar is returned only for shape ().
C18_ScalarExtraction ==
    op \in {"__bool__", "__int__", "__float__"} =>
        IF shape(arr) # <<>>
        THEN TypeErrorRaised(result) /\ engine = <<>>
        ELSE result.t = (IF op = "__bool__" THEN "bool"
                         ELSE IF op = "__int__" THEN "int" ELSE "float")

C18_Witness ==
    /\ op = "__int__"
    /\ shape(arr) = <<1>>
    /\ TypeErrorRaised(result)

\* The receiver of the call in progress, as a value.
Receiver == Deref(heap, this)

\* The key of the __getitem__ or __setitem__ in progress.
ItemKey == IF op = "__setitem__" THEN arg.items[1] ELSE arg

\* The key is None, or a tuple with None among its elements or among the
\* elements of a tuple inside it.
HasNone(key) ==
    \/ key.t = "NoneType"
    \/ /\ key.t = "tuple"
       /\ \E i \in 1 .. Len(key.items) :
             \/ key.items[i].t = "NoneType"
             \/ /\ key.items[i].t = "tuple"
                /\ \E j \in 1 .. Len(key.items[i].items) :
                      key.items[i].items[j].t = "NoneType"

\* C12: __getitem__ and __setitem__ with None as the key or inside a tuple
\* key fail with an IndexError for a receiver of every shape, with no call
\* of the engine.
C12_NewaxisRejected ==
    op \in {"__getitem__", "__setitem__"} /\ HasNone(ItemKey) =>
        IndexErrorRaised(result) /\ engine = <<>>

C12_Witness ==
    /\ op = "__setitem__"
    /\ ItemKey = PyTuple(<<PySlice(PyNone, PyNone, PyNone), PyNone>>)
    /\ shape(Receiver) = <<2, 2>>
    /\ result = IndexError("newaxis indices are not allowed in the array API namespace")

InPlaceMethods ==
    {"__iadd__", "__isub__", "__imul__", "__ifloordiv__", "__imod__", "__itruediv__",
     "__ipow__", "__iand__", "__ior__", "__ixor__", "__ilshift__", "__irshift__",
     "__imatmul__"}

\* The cells of object id.
CellsOf(h, id) == {h.objs[id].cells[i] : i \in 1 .. Len(h.objs[id].cells)}

\* C15: an in-place operator that succeeds returns the receiver object,
\* makes no object, leaves the cells, shape and dtype of every object as
\* they were, and writes only into the cells of the receiver.
C15_InPlace ==
    [][op' \in InPlaceMethods /\ result'.t # "raise" =>
          /\ result' = Ref(this')
          /\ heap'.objs = heap.objs
          /\ Len(heap'.mem) = Len(heap.mem)
          /\ \A a \in 1 .. Len(heap.mem) :
                a \notin CellsOf(heap, this') => heap'.mem[a] = heap.mem[a]]_vars

C15_Witness ==
    /\ op = "__iadd__"
    /\ this = 2
    /\ heap.objs[1].cells = <<1, 2, 3>>
    /\ heap.objs[2].cells = <<2, 3>>
    /\ result = Ref(2)
    /\ heap.mem = <<1, -1, -1>>

ValueErrorRaised(r) == r.t = "raise" /\ r.exc = "ValueError"

\* The right operand of the @= in progress, as the operator sees it after
\* the promotion of a Python scalar: an Array, or nothing when there is
\* none.
MatmulOperandShapes ==
    IF arg.t = "Array" THEN {shape(arg)}
    ELSE IF PromotionAccepts(arg, dtype(Receiver)) /\ result.exc # "OverflowError"
    THEN {<<>>}
    ELSE {}

\* C16: self @= other raises ValueError when an operand has shape () and
\* when other has two axes or more of which the last two differ in size;
\* with two square operands of one size it succeeds and returns the
\* receiver; the shape of the receiver is the same after every outcome.
C16_InPlaceMatmul ==
    [][op' = "__imatmul__" =>
          /\ \A s \in MatmulOperandShapes' :
                /\ \/ shape(Receiver') = <<>>
                   \/ s = <<>>
                   \/ Len(s) >= 2 /\ s[Len(s)] # s[Len(s) - 1]
                   => ValueErrorRaised(result')
                /\ s = <<2, 2>> /\ shape(Receiver') = <<2, 2>> => result' = Ref(this')
          /\ heap'.objs[this'].shape = heap.objs[this'].shape
          /\ heap'.objs[this'].cells = heap.objs[this'].cells]_vars

C16_Witness ==
    /\ op = "__imatmul__"
    /\ shape(Receiver) = <<2, 2>>
    /\ arg.t = "Array"
    /\ shape(arg) = <<2, 2>>
    /\ result = Ref(this)
    /\ heap.mem = <<-1, 1, 1, -1>>

\* C17 as stated: @= with a receiver of shape (3,) and a right operand of
\* shape (3, 3) raises ValueError.
C17_AsStated ==
    /\ op = "__imatmul__"
    /\ shape(Receiver) = <<3>>
    /\ arg.t = "Array"
    /\ shape(arg) = <<3, 3>>
    => ValueErrorRaised(result)

\* C17, amended: @= with a receiver of shape (3,) and a right operand of
\* shape (3, 3) succeeds and returns the receiver, whose shape stays (3,);
\* it is a right operand of one axis that @= refuses with ValueError.
C17_RankOneOperand ==
    op = "__imatmul__" /\ arg.t = "Array" =>
        /\ shape(Receiver) = <<3>> /\ shape(arg) = <<3, 3>> => result = Ref(this)
        /\ shape(Receiver) # <<>> /\ Len(shape(arg)) = 1 =>
              result = Raise("ValueError", "@= cannot change the shape of the input array")

C17_Witness ==
    /\ op = "__imatmul__"
    /\ shape(Receiver) = <<3>>
    /\ arg.t = "Array"
    /\ shape(arg) = <<3, 3>>
    /\ result = Ref(this)
    /\ this = 1

\* The key is a slice.
IsSlice(k) == k.t = "slice"

\* C19: a slice key makes a view on cells of the receiver; after an in-place
\* operator or an item assignment through one Array, every other Array is
\* on the cells it was on, so that a cell the two share reads the same
\* through both, and the new values are read through the other Array.
C19_Aliasing ==
    [][/\ op' = "__getitem__" /\ IsSlice(arg') /\ result'.t = "ref" =>
              /\ result'.id = Len(heap.objs) + 1
              /\ CellsOf(heap', result'.id) \subseteq CellsOf(heap, this')
              /\ heap'.mem = heap.mem
       /\ op' \in InPlaceMethods \cup {"__setitem__"} /\ result'.t # "raise" =>
              \A o \in 1 .. Len(heap.objs) :
                  /\ heap'.objs[o] = heap.objs[o]
                  /\ \A i \in 1 .. Len(heap.objs[o].cells) :
                        \A j \in 1 .. Len(heap.objs[this'].cells) :
                            heap.objs[o].cells[i] = heap.objs[this'].cells[j] =>
                                ndarray_of(heap', o).data[i]
                                    = ndarray_of(heap', this').data[j]]_vars

C19_Witness ==
    /\ op = "__setitem__"
    /\ this = 2
    /\ ItemKey = PyInt(0)
    /\ heap.objs[1].cells = <<1, 2, 3>>
    /\ heap.objs[2].cells = <<2, 3>>
    /\ result = _new(PyNone)
    /\ Deref(heap, 1)._array.data = <<-1, 1, -1>>
    /\ Deref(heap, 2)._array.data = <<1, -1>>

\* The errors of the layer's own checks: the promotion of a Python scalar,
\* the floating-point check of /= and **=, and the shape checks of @=.
OwnErrors ==
    {Raise("TypeError", m) :
        m \in {"Python bool scalars can only be promoted with bool arrays",
               "Python int scalars cannot be promoted with bool arrays",
               "Python float scalars can only be promoted with floating-point arrays.",
               "Only floating-point dtypes are allowed in __truediv__",
               "Only floating-point dtypes are allowed in __pow__"}}
    \cup {Raise("ValueError", m) :
             m \in {"@= requires at least one dimension",
                    "@= cannot change the shape of the input array"}}

\* The operand is refused before the engine is asked to compute: a Python
\* scalar the dtype of the receiver does not take, a dtype that is not
\* floating-point in /= or **=, a shape @= does not take.
InPlaceRejected(self, other, method) ==
    LET scalar == is_python_scalar(other)
        d == IF scalar THEN dtype(self) ELSE dtype(other)
        shp == IF scalar THEN <<>> ELSE shape(other)
    IN  /\ scalar \/ other.t = "Array"
        /\ \/ scalar /\ ~PromotionAccepts(other, dtype(self))
           \/ /\ method \in {"__itruediv__", "__ipow__"}
              /\ dtype(self) \notin _floating_dtypes \/ d \notin _floating_dtypes
           \/ /\ method = "__imatmul__"
              /\ shape(self) = <<>> \/ shp = <<>> \/ Len(shp) = 1

\* C20: an in-place operator that one of the layer's checks refuses raises
\* the error of that check and leaves the heap as it was; __getitem__ and
\* __setitem__ with a key the validation refuses raise its error with no
\* call of the engine and leave the heap as it was.
C20_FailFast ==
    [][/\ op' \in InPlaceMethods /\ InPlaceRejected(Deref(heap, this'), arg', op') =>
              result' \in OwnErrors /\ heap' = heap
       /\ op' \in InPlaceMethods /\ result' \in OwnErrors => heap' = heap
       /\ op' \in {"__getitem__", "__setitem__"} =>
              LET k == _validate_index(ItemKey', PyTuple(shape(Deref(heap, this'))))
              IN  k.t = "raise" => result' = k /\ engine' = <<>> /\ heap' = heap]_vars

C20_Witness ==
    /\ op = "__itruediv__"
    /\ dtype(Receiver) = float32
    /\ shape(Receiver) = <<3>>
    /\ arg.t = "Array"
    /\ dtype(arg) = int8
    /\ shape(arg) = <<3>>
    /\ result = Raise("TypeError", "Only floating-point dtypes are allowed in __truediv__")
    /\ Receiver._array.data = <<3, 3, 3>>

\* The round trip in progress is of an int in the range of an integer dtype,
\* or of a float against a floating-point dtype.
RoundTripInScope ==
    /\ op = "round_trip"
    /\ \/ arg.t = "int" /\ ClassOf(dtype(arr)) = "integer" /\ InRange(arg.v, dtype(arr))
       \/ arg.t = "float" /\ ClassOf(dtype(arr)) = "floating"

C23_ArrayNamespace ==
    [][op' = "__array_namespace__" =>
          /\ arg' # PyNone => result' = Raise("ValueError", "Unrecognized array API version")
          /\ arg' = PyNone => result' = _array_api
          /\ engine' = <<>>
          /\ arr' = arr]_vars

C23_Witness ==
    /\ op = "__array_namespace__"
    /\ arg = PyInt(0)
    /\ ValueErrorRaised(result)

NotImplementedRaised(r) == r.t = "raise" /\ r.exc = "NotImplementedError"

\* C24 as stated: the device accessor and __dlpack_device__ raise
\* NotImplementedError.
C24_AsStated ==
    op \in {"device", "__dlpack_device__"} => NotImplementedRaised(result)

\* __dlpack_device__ returns: an Array holding the device tuple of the
\* engine.
C24_Witness ==
    /\ op = "__dlpack_device__"
    /\ result.t = "Array"
    /\ result._array = PyTuple(<<PyInt(1), PyInt(0)>>)

\* C29 as stated: __len__ of an array with an axis returns the size of its
\* first axis as a Python int.
C29_AsStated ==
    op = "__len__" /\ shape(arr) # <<>> => result = PyInt(shape(arr)[1])

\* __len__ returns: an Array holding the Python int.
C29_Witness ==
    /\ op = "__len__"
    /\ shape(arr) = <<2>>
    /\ result.t = "Array"
    /\ result._array = PyInt(2)

\* The operators and accessors of the model that return array data.
ArrayValued ==
    {"__add__", "__truediv__", "__rtruediv__", "__pow__", "__rpow__", "__lshift__",
     "__rshift__", "__rlshift__", "__rrshift__", "__abs__", "_promote_scalar", "_new", "T"}

\* C21 as stated: what an operator or accessor returning array data
\* returns is an Array holding an engine array; only __bool__, __int__ and
\* __float__ return native values.
C21_AsStated ==
    /\ op \in ArrayValued /\ result.t # "raise" =>
          result.t = "Array" /\ result._array.t = "ndarray"
    /\ result.t \in {"bool", "int", "float"} =>
          op \in {"__bool__", "__int__", "__float__", "round_trip"}

\* T returns: the engine array, not an Array.
C21_Witness ==
    /\ op = "T"
    /\ result.t = "ndarray"
    /\ result = arr._array

\* The slice has an integer start or stop out of bounds for an axis of size n.
SliceOutOfBounds(k, n) ==
    /\ k.t = "slice"
    /\ \/ k.start.t = "int" /\ ~StartInBounds(k.start.v, n)
       \/ /\ k.stop.t = "int"
          /\ k.step.t \in {"int", "NoneType"}
          /\ k.step # PyInt(0)
          /\ ~StopInBounds(k.stop.v, IF k.step.t = "int" THEN k.step.v ELSE 1, n)

\* The positions of the ellipsis in the tuple items.
EllipsisAt(items) == {i \in 1 .. Len(items) : items[i].t = "ellipsis"}

\* The axis of element i of a tuple key on an array of ndim axes: the axis
\* at the same position from the front before the ellipsis, at the same
\* position from the end after it.
AxisOf(items, i, ndim) ==
    IF \E e \in EllipsisAt(items) : e < i THEN ndim - (Len(items) - i) ELSE i

\* A call of _validate_index with a tuple key of at most one ellipsis and
\* no more elements than axes, on a known shape.
TupleCall ==
    /\ ValidateCall
    /\ IndexKey.t = "tuple"
    /\ IndexShape.t = "tuple"
    /\ Cardinality(EllipsisAt(IndexKey.items)) <= 1
    /\ Len(IndexKey.items) - Cardinality(EllipsisAt(IndexKey.items)) <= Len(IndexShape.items)

\* C28 as stated: a tuple key with a slice out of bounds for the axis of
\* its position, counted from the front before the ellipsis and from the
\* end after it, fails with an IndexError.
C28_AsStated ==
    TupleCall =>
        \A i \in 1 .. Len(IndexKey.items) :
            SliceOutOfBounds(IndexKey.items[i],
                             IndexShape.items[AxisOf(IndexKey.items, i, Len(IndexShape.items))])
                => IndexErrorRaised(result)

\* (..., 5:) on shape (3,) is returned as a valid key.
C28_Witness ==
    /\ ValidateCall
    /\ IndexKey = PyTuple(<<PyEllipsis, PySlice(PyInt(MaxIdx), PyNone, PyNone)>>)
    /\ IndexShape = PyTuple(<<MaxAxis>>)
    /\ result = IndexKey

\* The shape of the operand of shape other than ().
NonZeroDimShape == IF shape(arr) = <<>> THEN shape(arg) ELSE shape(arr)

\* C26: a normalising binary operator on a shape () array and an array of
\* another rank returns the shape broadcasting gives the two operands as
\* they were, which is the shape of the array of another rank.
C26_NormalisedShape ==
    op \in {"__add__", "__truediv__", "__rtruediv__"} /\ MixedRankCall =>
        /\ broadcast_shapes(shape(arr), shape(arg)).ok
        /\ shape(result) = broadcast_shapes(shape(arr), shape(arg)).shape
        /\ shape(result) = NonZeroDimShape

C26_Witness ==
    /\ op = "__add__"
    /\ MixedRankCall
    /\ shape(arr) = <<>>
    /\ shape(arg) = <<2>>
    /\ shape(result) = <<2>>
    /\ engine = <<"ndarray.__getitem__", "ndarray.__add__">>

\* The call in progress reached the operator of the engine.
EngineReached == engine # <<>> /\ engine[Len(engine)] = "ndarray." \o op

\* The engine calls of the promotion of the operand, a Python scalar.
PromotionCalls == IF is_python_scalar(arg) THEN <<"np.array">> ELSE <<>>

\* The engine calls of the normalisation of the pair, of which the operand
\* is an Array or a Python scalar promoted to shape ().
NormalisationCalls ==
    IF (shape(arr) = <<>>) # (is_python_scalar(arg) \/ shape(arg) = <<>>)
    THEN <<"ndarray.__getitem__">>
    ELSE <<>>

\* C27 as stated: a binary operator other than the shifts and powers, the
\* in-place ones included, that reaches the engine has promoted a Python
\* scalar, then normalised the pair, then called the engine's operator, and
\* returns an Array.
C27_AsStated ==
    op \in {"__add__", "__truediv__", "__rtruediv__", "__itruediv__"} /\ EngineReached =>
        /\ engine = PromotionCalls \o NormalisationCalls \o <<"ndarray." \o op>>
        /\ result.t \in {"Array", "raise"}

\* C27, amended: so do the operators that return a new Array; the in-place
\* operator promotes a Python scalar and calls the engine's operator on the
\* pair as it is, without normalising it.
C27_DispatchOrder ==
    /\ op \in {"__add__", "__truediv__", "__rtruediv__"} /\ EngineReached =>
          /\ engine = PromotionCalls \o NormalisationCalls \o <<"ndarray." \o op>>
          /\ result.t \in {"Array", "raise"}
          /\ result.t = "Array" => result._array.t = "ndarray"
    /\ op = "__itruediv__" /\ EngineReached =>
          /\ engine = PromotionCalls \o <<"ndarray.__itruediv__">>
          /\ result \in {arr} \/ result.t = "raise"

C27_Witness ==
    /\ op = "__add__"
    /\ arg = PyInt(1)
    /\ dtype(arr) = int8
    /\ shape(arr) = <<2>>
    /\ engine = <<"np.array", "ndarray.__getitem__", "ndarray.__add__">>
    /\ result.t = "Array"

\* Object id has shape ().
ZeroDim(h, id) == h.objs[id].shape = <<>>

\* Object new of heap h2 is a view of shape (1,) of object id of heap h: on
\* the same cells, of the same dtype, made by the call.
NewAxisView(h, h2, id, new) ==
    /\ new = Len(h.objs) + 1
    /\ Len(h2.objs) = new
    /\ h2.objs[new].shape = <<1>>
    /\ h2.objs[new].dtype = h.objs[id].dtype
    /\ h2.objs[new].cells = h.objs[id].cells
    /\ ndarray_of(h2, new).data = ndarray_of(h, id).data

\* C25: _normalize_two_args(a, b) with one operand of shape () and one of
\* another shape returns a view of shape (1,) on the cells of the first,
\* of its dtype and value, and the other operand itself; with both or
\* neither of shape () it returns a and b themselves; it writes no cell
\* and leaves every object as it was.
C25_NormalizeTwoArgs ==
    [][op' = "_normalize_two_args" =>
          LET a == arg'.items[1].id
              b == arg'.items[2].id
              r1 == result'.items[1]
              r2 == result'.items[2]
          IN  /\ ZeroDim(heap, a) /\ ~ZeroDim(heap, b) =>
                    NewAxisView(heap, heap', a, r1.id) /\ r2 = Ref(b)
              /\ ZeroDim(heap, b) /\ ~ZeroDim(heap, a) =>
                    NewAxisView(heap, heap', b, r2.id) /\ r1 = Ref(a)
              /\ ZeroDim(heap, a) = ZeroDim(heap, b) =>
                    result' = arg' /\ heap' = heap
              /\ heap'.mem = heap.mem
              /\ \A o \in 1 .. Len(heap.objs) : heap'.objs[o] = heap.objs[o]]_vars

C25_Witness ==
    /\ op = "_normalize_two_args"
    /\ arg = Pair(Ref(1), Ref(2))
    /\ heap.objs[1].shape = <<2>>
    /\ heap.objs[2].shape = <<>>
    /\ result = Pair(Ref(1), Ref(3))
    /\ heap.objs[3].shape = <<1>>
    /\ heap.objs[3].cells = heap.objs[2].cells

WrapperFunctions ==
    {"concat", "expand_dims", "flip", "reshape", "roll", "squeeze", "stack", "argmax",
     "argmin", "nonzero", "where", "unique"}

\* An Array holding an engine array.
IsWrapped(r) == r.t = "Array" /\ r._array.t = "ndarray"

\* The call in progress returns several arrays: nonzero, and unique with
\* a flag set.
SeveralOutputs ==
    \/ op = "nonzero"
    \/ op = "unique" /\ \E i \in 1 .. 3 : arg.items[i] = PyBool(1)

\* C30 as stated: a wrapper function raises what the engine raised, or
\* returns an Array holding an engine array; nonzero, and unique with
\* several outputs, return a tuple of such Arrays.
C30_AsStated ==
    op \in WrapperFunctions =>
        \/ result.t = "raise" /\ result.exc \in {"ValueError", "TypeError", "AxisError"}
        \/ ~SeveralOutputs /\ IsWrapped(result)
        \/ /\ SeveralOutputs
           /\ result.t = "tuple"
           /\ \A i \in 1 .. Len(result.items) : IsWrapped(result.items[i])

\* nonzero returns: one Array holding the tuple of the engine.
C30_Witness ==
    /\ op = "nonzero"
    /\ shape(arr) = <<2>>
    /\ result.t = "Array"
    /\ result._array.t = "tuple"
    /\ Len(result._array.items) = 1

====
